---- MODULE Spec2Model ----
(***************************************************************************)
(* A model of the DynamoDB single-table graph mutation engine              *)
(* (common/dynaql/src/registry/resolvers/dynamo_mutation.rs) and of the    *)
(* paginated query extension (common/dynamodb/src/paginated.rs), and of    *)
(* parts of the federated engine (engine/crates/engine-v2).                *)
(*                                                                         *)
(* Spec      : the mutation resolver, one request at a time, its           *)
(*             transaction futures interleaved as try_join_all allows.     *)
(* SpecLink  : the same resolver on plain creations followed by creations  *)
(*             whose relation field links a list of ids.                   *)
(* SpecPage  : PaginatedCursor::from_graphql and query_node_edges, the     *)
(*             store answering each query of the loop with a page of any   *)
(*             size; the cursor a call hands back is fed to a second call. *)
(* SpecRequires : RequiredFieldSetBuffer::try_insert_into, one convert_item *)
(*             at a time, over the field sets of a composed graph.         *)
(* SpecEq    : the comparison of an operation input value with a schema    *)
(*             input value (operation/input_value/query/mod.rs).           *)
(* SpecValidation : validate_operation and the GraphqlError of its error.  *)
(* SpecEngine : Engine::execute, from the gateway hook to the response.    *)
(* SpecUnlink : the mutation resolver on a creation with a nested child,   *)
(*             then UpdateNode requests that link or unlink under one      *)
(*             relation field.                                             *)
(* SpecArena : QueryInputValues, one push_value, reserve_list, reserve_map *)
(*             or append_input_object at a time.                           *)
(* SpecId    : the typed ids of the NonZeroU32! macro                      *)
(*             (engine-v2/id-newtypes), built from an index and read back. *)
(***************************************************************************)
EXTENDS Integers, Sequences, FiniteSets, TLC

VARIABLES
    store,      \* the table: (pk, sk) -> row, for the rows that exist
    pre,        \* the table as it was when the current request started
    now,        \* the last value Utc::now() returned
    nmut,       \* number of requests started so far (the execution ids handed out)
    nfail,      \* number of loader / batcher failures injected so far
    pc,         \* "idle" | "tx" (inside try_join_all)
    op,         \* the request being resolved, or the last one resolved
    txs,        \* the transaction futures of the request (RecursiveCreation.transaction)
    pending,    \* indices of the transaction futures that have not completed
    sels,       \* memo of the Shared selection futures: key -> output
    polls,      \* how many times the work of each selection was executed
    submitted,  \* TxItems handed to the transaction batcher by the request
    selFailed,  \* a selection future of the request resolved to an error
    errors,     \* GraphQL errors recorded with ctx.add_error by the request
    outcome,    \* "none" | "ok" | "err" | "notfound"
    qpc,        \* "new" | "error" | "cursor" | "loop" | "returned"
    args,       \* the arguments of the last from_graphql call
    created,    \* what that call returned: a cursor or a CursorCreation error
    table,      \* the rows query_node_edges reads, as (__pk, __sk) pairs
    pos,        \* rows of the scan the store has returned to the current call
    qresult,    \* QueryResult being accumulated: values, last_evaluated_key
    actual_state, \* PageState: "Next" | "End"
    queries,    \* store queries the current call has issued
    call,       \* 0 before the first query_node_edges call, then 1, then 2
    page1,      \* the cursor and the QueryResult of the first call
    bpc,        \* try_insert_into: "convert" | "ok" | "err"
    deduplicated_fields, \* Converter.deduplicated_fields: RequiredField -> RequiredFieldId
    input_values, \* the arena of schema input values: id -> value
    required_field_sets, \* the items converted so far: set, depth, field, id
    position,   \* the buffered set being converted, the depth in it, items converted
    last_item,  \* the federated item of the last convert_item call
    converted,  \* what that call returned
    graph,      \* graph.required_fields and graph.required_field_sets
    comparison, \* the last `eq` call: its two values and what it returned
    validation, \* the last validate_operation call: schema, operation, result
    epc,        \* Engine::execute: "idle" | "hook" | "auth" | "limit" | "run" | "done"
    request,    \* the request being executed: headers, format, batch, collaborators
    headers,    \* the headers on_gateway_request handed back
    response,   \* the HttpGraphqlResponse returned: errors and data
    limiter_calls, \* calls of rate_limiter().limit made for the request
    executions, \* operations prepared and executed for the request
    query_input_values, \* QueryInputValues: values, input_fields, key_values
    handles,    \* the ids and ranges the calls on QueryInputValues returned, in order
    typed_ids   \* the From<usize> calls made so far and what each gave

mutationVars == <<store, pre, now, nmut, nfail, pc, op, txs, pending, sels, polls,
                  submitted, selFailed, errors, outcome>>

cursorVars == <<qpc, args, created, table, pos, qresult, actual_state, queries, call,
                page1>>

requiresVars == <<bpc, deduplicated_fields, input_values, required_field_sets, position,
                  last_item, converted, graph>>

eqVars == <<comparison>>

validationVars == <<validation>>

engineVars == <<epc, request, headers, response, limiter_calls, executions>>

arenaVars == <<query_input_values, handles>>

idVars == <<typed_ids>>

\* what the actions of one specification leave alone
exceptMutationVars ==
    <<cursorVars, requiresVars, eqVars, validationVars, engineVars, arenaVars, idVars>>
exceptCursorVars ==
    <<mutationVars, requiresVars, eqVars, validationVars, engineVars, arenaVars, idVars>>
exceptRequiresVars ==
    <<mutationVars, cursorVars, eqVars, validationVars, engineVars, arenaVars, idVars>>
exceptEqVars ==
    <<mutationVars, cursorVars, requiresVars, validationVars, engineVars, arenaVars, idVars>>
exceptValidationVars ==
    <<mutationVars, cursorVars, requiresVars, eqVars, engineVars, arenaVars, idVars>>
exceptEngineVars ==
    <<mutationVars, cursorVars, requiresVars, eqVars, validationVars, arenaVars, idVars>>
exceptArenaVars ==
    <<mutationVars, cursorVars, requiresVars, eqVars, validationVars, engineVars, idVars>>
exceptIdVars ==
    <<mutationVars, cursorVars, requiresVars, eqVars, validationVars, engineVars, arenaVars>>

vars == <<mutationVars, cursorVars, requiresVars, eqVars, validationVars, engineVars,
         arenaVars, idVars>>

-----------------------------------------------------------------------------
(* Bounds *)

MaxMutations == 2
MaxFailures == 1
MaxTargets == 2

-----------------------------------------------------------------------------
(* The schema the resolver runs against (ctx.registry()):                  *)
(*   T1.f1 : T2  relation R1, declared by T2 too (T2.g1 : T1)              *)
(*   T1.f2 : T2  relation R2, declared by T1 only                          *)

Types == {"T1", "T2"}

RelFields(ty) == IF ty = "T1" THEN <<"f1", "f2">> ELSE <<"g1">>

relations(ty) ==
    IF ty = "T1"
    THEN [f1 |-> [name |-> "R1", ty |-> "T2"], f2 |-> [name |-> "R2", ty |-> "T2"]]
    ELSE [g1 |-> [name |-> "R1", ty |-> "T1"]]

\* to_ty.relations().find(|r| r.name == relation_name).is_some()
declares_relation(ty, relation_name) ==
    \E f \in DOMAIN relations(ty) : relations(ty)[f].name = relation_name

-----------------------------------------------------------------------------
(* Identifiers and rows *)

\* the value of a basic attribute the input does not set
NoVal == 0

\* "<TypeName>#<ULID>"
NodeIds == Types \X (1..(MaxMutations + 1))
\* a constraint row has a ConstraintID as pk and as sk
ConstraintId == <<"__C", 0>>

IdType(id) == id[1]

Attrs(ty, val, t) == [ty |-> ty, val |-> val, upd |-> t]

Row(attrs, rels) == [ty |-> attrs.ty, val |-> attrs.val, upd |-> attrs.upd, rels |-> rels]

RowAttrs(row) == [ty |-> row.ty, val |-> row.val, upd |-> row.upd]

Exists(s, pk, sk) == <<pk, sk>> \in DOMAIN s


-----------------------------------------------------------------------------
(* The store behind the batchers: the loader (get by key), the two query    *)
(* loaders (rows by pk, rows by sk) and the transaction batcher.            *)

IsNodeId(id) == id[1] \in Types

\* loader.load_many(keys): the items found, keyed by (pk, sk); missing keys are
\* simply absent from the answer
load_many(s, keys) == [k \in keys \cap DOMAIN s |-> RowAttrs(s[k])]

\* QueryValue {node, edges, constraints} of the rows a query returns, classified
\* by the shape of their ids
Classify(s, ks) ==
    [node        |-> {k \in ks : IsNodeId(k[1]) /\ IsNodeId(k[2]) /\ k[1] = k[2]},
     edges       |-> {k \in ks : IsNodeId(k[1]) /\ IsNodeId(k[2]) /\ k[1] # k[2]},
     constraints |-> {k \in ks : ~IsNodeId(k[1]) /\ ~IsNodeId(k[2])}]

\* batchers.query.load_one(QueryKey::new(id, [])): the rows whose pk is id
query(s, id) == Classify(s, {k \in DOMAIN s : k[1] = id})

\* batchers.query_reversed.load_one(QueryKey::new(id, [])): the rows whose sk is id
query_reversed(s, id) == Classify(s, {k \in DOMAIN s : k[2] = id})

\* One TxItem:  [t |-> "put" | "upsert" | "update" | "delete", pk, sk, attrs, rel]
TxItem(t, pk, sk, attrs, rel) == [t |-> t, pk |-> pk, sk |-> sk, attrs |-> attrs, rel |-> rel]

NoAttrs == Attrs("", NoVal, 0)

\* condition_expression of the item holds in s
ConditionHolds(s, it) == it.t = "update" => Exists(s, it.pk, it.sk)

\* `set a=:a, ...` writes the attributes that are in the expression only
SetAttrs(old, attrs) ==
    [ty  |-> attrs.ty,
     val |-> IF attrs.val = NoVal THEN old.val ELSE attrs.val,
     upd |-> attrs.upd,
     rels |-> old.rels]

\* ApplyItem with `set #relation_name = :relation_name` in place of ADD
ApplyItem_set_relation_name(s, it) ==
    LET k == <<it.pk, it.sk>>
        old == IF k \in DOMAIN s THEN s[k] ELSE Row(NoAttrs, {})
    IN  CASE it.t = "put" ->
               [x \in DOMAIN s \cup {k} |-> IF x = k THEN Row(it.attrs, {}) ELSE s[x]]
          [] it.t = "upsert" ->
               [x \in DOMAIN s \cup {k} |->
                   IF x = k
                   THEN [SetAttrs(old, it.attrs) EXCEPT !.rels = {it.rel}]
                   ELSE s[x]]
          [] it.t = "update" ->
               [x \in DOMAIN s |->
                   IF x = k THEN [s[x] EXCEPT !.val = it.attrs.val, !.upd = it.attrs.upd]
                   ELSE s[x]]
          [] OTHER ->
               [x \in DOMAIN s \ {k} |-> s[x]]

ApplyItem(s, it) ==
    LET k == <<it.pk, it.sk>>
        old == IF k \in DOMAIN s THEN s[k] ELSE Row(NoAttrs, {})
    IN  CASE it.t = "put" ->
               [x \in DOMAIN s \cup {k} |-> IF x = k THEN Row(it.attrs, {}) ELSE s[x]]
          [] it.t = "upsert" ->
               \* Update: set <attributes> ADD #relation_name :relation_name
               [x \in DOMAIN s \cup {k} |->
                   IF x = k
                   THEN [SetAttrs(old, it.attrs) EXCEPT !.rels = old.rels \cup {it.rel}]
                   ELSE s[x]]
          [] it.t = "update" ->
               \* Update: set <basic>=:v, updated_at=:t
               [x \in DOMAIN s |->
                   IF x = k THEN [s[x] EXCEPT !.val = it.attrs.val, !.upd = it.attrs.upd]
                   ELSE s[x]]
          [] OTHER ->
               [x \in DOMAIN s \ {k} |-> s[x]]

RECURSIVE ApplyAll(_, _)
ApplyAll(s, items) ==
    IF items = {} THEN s
    ELSE LET it == CHOOSE x \in items : TRUE
         IN  ApplyAll(ApplyItem(s, it), items \ {it})

\* transaction batcher: the items of one call are committed together or not at all
CanCommit(s, items) == \A it \in items : ConditionHolds(s, it)
Commit(s, items) == ApplyAll(s, items)

-----------------------------------------------------------------------------
(* Inputs.  An input object is [basic, rels]: the value of the one basic    *)
(* attribute (NoVal when the input has none) and, per relation field, the   *)
(* list of child inputs `inputs` extracts from it.  A child input is        *)
(* {create: {...}}, {link: id | [id] | null} or {unlink: id | [id] | null}. *)

NoInput == [basic |-> NoVal, rels |-> <<>>]

Create(input) == [op |-> "create", input |-> input, ids |-> {}, null |-> FALSE]
Link(ids)     == [op |-> "link", input |-> NoInput, ids |-> ids, null |-> FALSE]
Unlink(ids)   == [op |-> "unlink", input |-> NoInput, ids |-> ids, null |-> FALSE]
UnlinkNull    == [op |-> "unlink", input |-> NoInput, ids |-> {}, null |-> TRUE]

\* input.get(relation_field).and_then(inputs)
inputs(input, field) ==
    IF field \in DOMAIN input.rels THEN input.rels[field] ELSE <<>>

-----------------------------------------------------------------------------
(* Selection futures (SharedSelectionType).  A selection is described by    *)
(* what it will do when polled; `path` tells apart the futures of one       *)
(* request.  Its output is memoised in `sels` under SelKey.                 *)

Sel(kind, path, keys, attrs) == [kind |-> kind, path |-> path, keys |-> keys, attrs |-> attrs]

SelKey(sel) == <<sel.kind, sel.path>>

\* Output of a selection: Ok(HashMap<(pk, sk), item>) or Err.  `first` is the
\* entry `.into_iter().next()` yields for this map (<<>> when the map is empty).
Output(ok, items, first) == [ok |-> ok, items |-> items, first |-> first]

ErrOutput == Output(FALSE, <<>>, <<>>)

Firsts(items) == IF DOMAIN items = {} THEN {<<>>} ELSE {<<k>> : k \in DOMAIN items}

\* The map a selection resolves to when it is polled against store s at time t
SelItems(sel, s, t) ==
    CASE sel.kind = "proj" ->
           \* node_create: the projected item of the node being created
           [k \in sel.keys |-> sel.attrs]
      [] sel.kind = "load" ->
           \* relation_handle link / unlink: loader.load_many(ids)
           load_many(s, sel.keys)
      [] sel.kind = "updated" ->
           \* node_update: the loaded entity with the basic fields applied
           LET selected == load_many(s, sel.keys)
           IN  [k \in DOMAIN selected |->
                  IF sel.attrs.val # NoVal
                  THEN [selected[k] EXCEPT !.val = sel.attrs.val, !.upd = t]
                  ELSE selected[k]]
      [] sel.kind = "reversed" ->
           \* node_update: every row where the id is the sort key
           LET q == query_reversed(s, CHOOSE id \in NodeIds : <<id, id>> \in sel.keys)
           IN  [k \in q.node \cup q.edges |-> RowAttrs(s[k])]
      [] OTHER ->
           \* async { Ok(HashMap::new()) }
           [k \in {} |-> NoAttrs]

-----------------------------------------------------------------------------
(* Transaction futures (TransactionType) and the recursive construction of  *)
(* a RecursiveCreation {selection, transaction}.  `errors` carries the      *)
(* ctx.add_error calls made while the futures are built.                    *)

NoSel == Sel("empty", <<>>, {}, NoAttrs)

Tx(kind, id, attrs, to_ty, parent, selected, rel) ==
    [kind |-> kind, id |-> id, attrs |-> attrs, to_ty |-> to_ty,
     parent |-> parent, selected |-> selected, rel |-> rel]

\* node_create: create_future, the Put of the node itself
PutTx(id, item) == Tx("put", id, item, "", NoSel, NoSel, "")
\* create_relation_node(ctx, to_ty, parent_value, selected_value, relation_name)
EdgeTx(to_ty, parent_value, selected_value, relation_name) ==
    Tx("edge", <<>>, NoAttrs, to_ty, parent_value, selected_value, relation_name)
\* relation_remove(ctx, from, to, relation_name)
RemoveTx(from, to, relation_name) == Tx("remove", to, NoAttrs, "", from, NoSel, relation_name)
\* node_update: update_future
UpdateTx(id, basic, select_entities_to_update) ==
    Tx("update", id, Attrs("", basic, 0), "", select_entities_to_update, NoSel, "")

RecursiveCreation(selection, transaction, errs) ==
    [selection |-> selection, transaction |-> transaction, errors |-> errs]

\* increment: Arc::new(AtomicUsize::new(0)); no code stores to it
increment == 0

\* Ulid::increment applied n times
UlidIncrement(execution_id, n) == execution_id + n

RECURSIVE SetToSeq(_)
SetToSeq(S) ==
    IF S = {} THEN <<>>
    ELSE LET x == CHOOSE y \in S : TRUE IN <<x>> \o SetToSeq(S \ {x})

RECURSIVE ConcatTransactions(_)
ConcatTransactions(list_recur) ==
    IF list_recur = <<>> THEN <<>>
    ELSE Head(list_recur).transaction \o ConcatTransactions(Tail(list_recur))

RECURSIVE UnionErrors(_)
UnionErrors(list_recur) ==
    IF list_recur = <<>> THEN {}
    ELSE Head(list_recur).errors \cup UnionErrors(Tail(list_recur))

\* the null unlink value, handled without ctx.add_error
unlink_null_unreported(path) == RecursiveCreation(Sel("empty", path, {}, NoAttrs), <<>>, {})

\* relation_handle on an unlink value that is neither an id nor a list:
\* "If you fill an unlink value it shouldn't be null" at the position, no future
unlink_null(path) == RecursiveCreation(Sel("empty", path, {}, NoAttrs), <<>>, {path})

RECURSIVE node_create(_, _, _, _, _)
RECURSIVE relation_child(_, _, _, _, _, _, _)
RECURSIVE relation_handle(_, _, _, _, _, _, _, _)
RECURSIVE relations_fold(_, _, _, _, _, _, _)

\* relation_handle, the body of `for child_input in child_input`
relation_child(parent_ty, parent_value, relation_field, child_input, execution_id, path, t) ==
    LET relation_name == relations(parent_ty)[relation_field].name
        child_ty == relations(parent_ty)[relation_field].ty
        keys == {<<id, id>> : id \in child_input.ids}
    IN  CASE child_input.op = "create" ->
               LET result == node_create(child_ty, execution_id, child_input.input, path, t)
                   create_normal_future ==
                       EdgeTx(parent_ty, result.selection, parent_value, relation_name)
                   create_reverse_future ==
                       EdgeTx(child_ty, parent_value, result.selection, relation_name)
               IN  RecursiveCreation(result.selection,
                       result.transaction \o <<create_normal_future, create_reverse_future>>,
                       result.errors)
          [] child_input.op = "link" ->
               LET shared_selection ==
                       IF child_input.null THEN Sel("empty", path, {}, NoAttrs)
                       ELSE Sel("load", path, keys, NoAttrs)
                   create_normal_future ==
                       EdgeTx(parent_ty, shared_selection, parent_value, relation_name)
                   create_reverse_future ==
                       EdgeTx(child_ty, parent_value, shared_selection, relation_name)
               IN  RecursiveCreation(shared_selection,
                       <<create_normal_future, create_reverse_future>>, {})
          [] OTHER ->
               IF ~child_input.null
               THEN LET targets == SetToSeq(child_input.ids)
                    IN  RecursiveCreation(Sel("load", path, keys, NoAttrs),
                            [i \in 1..Len(targets) |->
                                RemoveTx(parent_value, targets[i], relation_name)],
                            {})
               ELSE unlink_null(path)

\* relation_handle: one RecursiveCreation per child input of the relation field,
\* starting at child input number i
relation_handle(parent_ty, parent_value, relation_field, input, execution_id, path, t, i) ==
    LET child_input == inputs(input, relation_field)
    IN  IF i > Len(child_input) THEN <<>>
        ELSE <<relation_child(parent_ty, parent_value, relation_field, child_input[i],
                              execution_id, path \o <<relation_field, i>>, t)>>
             \o relation_handle(parent_ty, parent_value, relation_field, input,
                                execution_id, path, t, i + 1)

\* node_create / node_update: the fold over node_ty.relations(), from field number f
relations_fold(node_ty, parent_value, input, execution_id, path, t, f) ==
    IF f > Len(RelFields(node_ty)) THEN <<>>
    ELSE relation_handle(node_ty, parent_value, RelFields(node_ty)[f], input,
                         execution_id, path, t, 1)
         \o relations_fold(node_ty, parent_value, input, execution_id, path, t, f + 1)

node_create(node_ty, execution_id, input, path, t) ==
    LET current_execution_id == UlidIncrement(execution_id, increment)
        id == <<node_ty, current_execution_id>>
        item == Attrs(node_ty, input.basic, t)
        selection_entity == Sel("proj", path, {<<id, id>>}, item)
        list_recur == relations_fold(node_ty, selection_entity, input, execution_id, path, t, 1)
        create_future == PutTx(id, item)
    IN  RecursiveCreation(selection_entity,
            ConcatTransactions(list_recur) \o <<create_future>>,
            UnionErrors(list_recur))

node_update(node_ty, execution_id, input, id, t) ==
    LET selection_entity_updated ==
            Sel("updated", <<>>, {<<id, id>>}, Attrs(node_ty, input.basic, 0))
        list_recur ==
            relations_fold(node_ty, selection_entity_updated, input, execution_id, <<>>, t, 1)
        select_entities_to_update == Sel("reversed", <<>>, {<<id, id>>}, NoAttrs)
        update_future == UpdateTx(id, input.basic, select_entities_to_update)
    IN  RecursiveCreation(selection_entity_updated,
            ConcatTransactions(list_recur) \o <<update_future>>,
            UnionErrors(list_recur))

-----------------------------------------------------------------------------
(* What a transaction future does when it runs *)

\* the selections a transaction future awaits, in the order it awaits them
Awaits(tx) ==
    CASE tx.kind = "edge" ->
           IF declares_relation(tx.to_ty, tx.rel) THEN <<tx.parent, tx.selected>> ELSE <<>>
      [] tx.kind = "remove" -> <<tx.parent>>
      [] tx.kind = "update" -> <<tx.parent>>
      [] OTHER -> <<>>

\* Resolved without the memo of Shared: the output is never kept
Resolved_not_kept(m, sel) == FALSE

\* Shared: the future has run and its output is kept for every clone
Resolved(m, sel) == SelKey(sel) \in DOMAIN m

\* `.await.map_err(|_| TransactionError::UnknownError)?` returns at the first error
AwaitFails(m, tx) ==
    \E i \in 1..Len(Awaits(tx)) :
        /\ \A j \in 1..i : Resolved(m, Awaits(tx)[j])
        /\ \A j \in 1..(i - 1) : m[SelKey(Awaits(tx)[j])].ok
        /\ ~m[SelKey(Awaits(tx)[i])].ok

AwaitsDone(m, tx) ==
    \A i \in 1..Len(Awaits(tx)) :
        Resolved(m, Awaits(tx)[i]) /\ m[SelKey(Awaits(tx)[i])].ok

\* the selection the future is suspended on: its first await not resolved yet
NextAwait(m, tx) ==
    {i \in 1..Len(Awaits(tx)) :
        /\ ~Resolved(m, Awaits(tx)[i])
        /\ \A j \in 1..(i - 1) : Resolved(m, Awaits(tx)[j]) /\ m[SelKey(Awaits(tx)[j])].ok}

\* edge_items with the key of the row inverted: (parent sk, selected id)
edge_items_inverted_key(m, tx) ==
    IF ~declares_relation(tx.to_ty, tx.rel) THEN {}
    ELSE LET parent_value == m[SelKey(tx.parent)]
             selected_type == m[SelKey(tx.selected)]
         IN  IF parent_value.first = <<>> \/ selected_type.first = <<>> THEN {}
             ELSE LET sk == parent_value.first[1][2]
                      val == parent_value.items[parent_value.first[1]]
                      selected_id == selected_type.first[1][1]
                  IN  {TxItem("upsert", sk, selected_id, val, tx.rel)}

\* edge_items without the test that the selected projection is Some: the row
\* is written for the id that was asked for
edge_items_unresolved_target(m, tx) ==
    IF ~declares_relation(tx.to_ty, tx.rel) THEN {}
    ELSE LET parent_value == m[SelKey(tx.parent)]
             selected_type == m[SelKey(tx.selected)]
         IN  IF parent_value.first = <<>> \/ tx.selected.keys = {} THEN {}
             ELSE LET sk == parent_value.first[1][2]
                      val == parent_value.items[parent_value.first[1]]
                      selected_id == IF selected_type.first = <<>>
                                     THEN (CHOOSE k \in tx.selected.keys : TRUE)[1]
                                     ELSE selected_type.first[1][1]
                  IN  {TxItem("upsert", selected_id, sk, val, tx.rel)}

\* create_relation_node: the TxItem of the edge row, if any
edge_items(m, tx) ==
    IF ~declares_relation(tx.to_ty, tx.rel) THEN {}
    ELSE LET parent_value == m[SelKey(tx.parent)]
             selected_type == m[SelKey(tx.selected)]
         IN  IF parent_value.first = <<>> \/ selected_type.first = <<>> THEN {}
             ELSE LET sk == parent_value.first[1][2]
                      val == parent_value.items[parent_value.first[1]]
                      selected_id == selected_type.first[1][1]
                  IN  {TxItem("upsert", selected_id, sk, val, tx.rel)}

\* remove_items deleting the row of one direction only
remove_items_one_side(m, tx) ==
    LET values == m[SelKey(tx.parent)].items
        to == tx.id
        kept == {k \in DOMAIN values : k[1] # to \/ k[2] # to}
    IN  {TxItem("delete", to, k[2], NoAttrs, "") : k \in kept}

\* relation_remove: the Delete of both edge rows, for every entry of `from`
remove_items(m, tx) ==
    LET values == m[SelKey(tx.parent)].items
        to == tx.id
        kept == {k \in DOMAIN values : k[1] # to \/ k[2] # to}
    IN  {TxItem("delete", to, k[2], NoAttrs, "") : k \in kept}
        \cup {TxItem("delete", k[1], to, NoAttrs, "") : k \in kept}

\* update_items without the test `!basic.is_empty()`
update_items_always(m, tx, t) ==
    LET items_pk == {k[1] : k \in DOMAIN m[SelKey(tx.parent)].items}
        id_cloned == tx.id
    IN  {TxItem("update", pk, id_cloned, Attrs("", tx.attrs.val, t), "") :
            pk \in {id_cloned} \cup items_pk}

\* update_items updating the node row alone
update_items_node_only(m, tx, t) ==
    IF tx.attrs.val = NoVal THEN {}
    ELSE {TxItem("update", tx.id, tx.id, Attrs("", tx.attrs.val, t), "")}

\* node_update, update_future: the conditional Update of the node row and of
\* every duplicate, when the input has a basic field
update_items(m, tx, t) ==
    LET items_pk == {k[1] : k \in DOMAIN m[SelKey(tx.parent)].items}
        id_cloned == tx.id
    IN  IF tx.attrs.val = NoVal THEN {}
        ELSE {TxItem("update", pk, id_cloned, Attrs("", tx.attrs.val, t), "") :
                 pk \in {id_cloned} \cup items_pk}

put_items(tx) == {TxItem("put", tx.id, tx.id, tx.attrs, "")}

ItemsOf(m, tx, t) ==
    CASE tx.kind = "put" -> put_items(tx)
      [] tx.kind = "edge" -> edge_items(m, tx)
      [] tx.kind = "remove" -> remove_items(m, tx)
      [] OTHER -> update_items(m, tx, t)

\* items_to_be_deleted without the rows of the reversed query
items_to_be_deleted_pk_only(items_pk, items_sk) ==
    {TxItem("delete", k[1], k[2], NoAttrs, "") : k \in items_pk.node \cup items_pk.edges}

\* DeleteNode: node and edge rows of both query results, one Delete per row
items_to_be_deleted(items_pk, items_sk) ==
    {TxItem("delete", k[1], k[2], NoAttrs, "") :
        k \in items_pk.node \cup items_pk.edges \cup items_sk.node \cup items_sk.edges}

-----------------------------------------------------------------------------
(* The requests the model sends *)

\* ids a client may know: those of the execution ids handed out so far
KnownIds(ty) == {<<ty, n>> : n \in 1..nmut}

\* the id lists of a link or an unlink
IdSets(ty) == {S \in SUBSET KnownIds(ty) : S # {} /\ Cardinality(S) <= MaxTargets}

PlainInput(v) == [basic |-> v, rels |-> <<>>]

\* values of one relation field: absent, create, link, unlink, unlink null
FieldInputs(ty, field) ==
    LET child_ty == relations(ty)[field].ty
    IN  {<<>>, <<Create(PlainInput(1))>>, <<UnlinkNull>>}
        \cup {<<Link(S)>> : S \in IdSets(child_ty)}
        \cup {<<Unlink(S)>> : S \in IdSets(child_ty)}

\* a second relation field in the same input: absent, create or link
SecondFieldInputs(ty, field) ==
    {a \in FieldInputs(ty, field) : a = <<>> \/ a[1].op \in {"create", "link"}}

\* a create nested in a create (T1 -> T2 -> T1)
DeepInput == [basic |-> 1, rels |-> [g1 |-> <<Create(PlainInput(1))>>]]

RelInputs(ty) ==
    IF ty = "T1"
    THEN {[f1 |-> a, f2 |-> b] :
             a \in FieldInputs(ty, "f1"), b \in SecondFieldInputs(ty, "f2")}
         \cup {[f1 |-> <<Create(DeepInput)>>, f2 |-> <<>>]}
    ELSE {[g1 |-> a] : a \in FieldInputs(ty, "g1")}

Inputs(ty, basics) == {[basic |-> v, rels |-> r] : v \in basics, r \in RelInputs(ty)}

-----------------------------------------------------------------------------
(* PaginatedCursor and query_node_edges *)

MaxKey == 4      \* ids are 1..MaxKey, ordered as their strings are
MaxLimit == 2    \* `first` and `last` are 1..MaxLimit

\* Option::None; Some(x) is x, which is at least 1
None == 0
Ids == 1..MaxKey

Forward(exclusive_last_key, first, nested) ==
    [kind |-> "Forward", key |-> exclusive_last_key, n |-> first, nested |-> nested]

Backward(exclusive_first_key, last, nested) ==
    [kind |-> "Backward", key |-> exclusive_first_key, n |-> last, nested |-> nested]

NoCursor == [kind |-> "", key |-> None, n |-> None, nested |-> None]
Ok(cursor) == [ok |-> TRUE, err |-> "", cursor |-> cursor]
Err(e) == [ok |-> FALSE, err |-> e, cursor |-> NoCursor]

\* from_graphql with a Forward arm that does not look at `before`
from_graphql_forward_any_before(first, last, after, before, nested) ==
    IF first # None /\ last # None THEN Err("SameParameterSameTime")
    ELSE IF first # None /\ last = None
         THEN Ok(Forward(after, first, nested))
    ELSE IF after # None /\ last # None THEN Err("LastAndAfterSameTime")
    ELSE IF first = None /\ after = None /\ last # None
         THEN Ok(Backward(before, last, nested))
    ELSE Err("Direction")

\* from_graphql with the first two arms of the match exchanged
from_graphql_before_first(first, last, after, before, nested) ==
    IF first # None /\ before # None THEN Err("FirstAndBeforeSameTime")
    ELSE IF first # None /\ last # None THEN Err("SameParameterSameTime")
    ELSE IF after # None /\ last # None THEN Err("LastAndAfterSameTime")
    ELSE IF first # None /\ last = None /\ before = None
         THEN Ok(Forward(after, first, nested))
    ELSE IF first = None /\ after = None /\ last # None
         THEN Ok(Backward(before, last, nested))
    ELSE Err("Direction")

\* PaginatedCursor::from_graphql: the arms of the match, in their order
from_graphql(first, last, after, before, nested) ==
    IF first # None /\ last # None THEN Err("SameParameterSameTime")
    ELSE IF first # None /\ before # None THEN Err("FirstAndBeforeSameTime")
    ELSE IF after # None /\ last # None THEN Err("LastAndAfterSameTime")
    ELSE IF first # None /\ last = None /\ before = None
         THEN Ok(Forward(after, first, nested))
    ELSE IF first = None /\ after = None /\ last # None
         THEN Ok(Backward(before, last, nested))
    ELSE Err("Direction")

scan_index_forward(cursor) == cursor.kind = "Backward"
pagination_string(cursor) == cursor.key
nested_parent_pk(cursor) == cursor.nested
is_nested_relation(cursor) == cursor.nested # None
limit(cursor) == cursor.n

\* the attribute #sk names: __sk for a nested relation, else the sort key of the
\* type index, __gsi1sk, in which node_create and create_relation_node store
\* the row's __pk
sort_index(cursor, row) == IF is_nested_relation(cursor) THEN row[2] ELSE row[1]

\* key_condition_expression, "#pk = :pk" being the choice of the partition
key_condition_expression(cursor, row) ==
    IF pagination_string(cursor) = None THEN TRUE
    ELSE IF cursor.kind = "Forward"
         THEN sort_index(cursor, row) < pagination_string(cursor)
         ELSE sort_index(cursor, row) > pagination_string(cursor)

\* the partition `:pk` selects: the rows of the parent, or the rows of the type
Partition(cursor, rows) ==
    IF is_nested_relation(cursor)
    THEN {r \in rows : r[1] = nested_parent_pk(cursor)}
    ELSE rows

\* the store's order on the rows of a partition
Before(cursor, a, b) ==
    \/ sort_index(cursor, a) < sort_index(cursor, b)
    \/ sort_index(cursor, a) = sort_index(cursor, b) /\ a[2] < b[2]

RECURSIVE Sorted(_, _)
Sorted(cursor, rows) ==
    IF rows = {} THEN <<>>
    ELSE LET head == CHOOSE r \in rows :
                        \A o \in rows \ {r} :
                            IF scan_index_forward(cursor)
                            THEN Before(cursor, r, o) ELSE Before(cursor, o, r)
         IN  <<head>> \o Sorted(cursor, rows \ {head})

\* the rows the query returns over all its pages, in the order of the scan
Scan(cursor, rows) ==
    Sorted(cursor, {r \in Partition(cursor, rows) : key_condition_expression(cursor, r)})

QueryValue(key, rows) == [key |-> key, rows |-> rows]
QueryResult(values, last_evaluated_key) ==
    [values |-> values, last_evaluated_key |-> last_evaluated_key]

KeysOf(values) == {values[i].key : i \in 1..Len(values)}

\* the body of `for x in resp.items`
group_row(cursor, acc, x) ==
    LET len == Len(acc.values)
        pk == x[1]
        sk == x[2]
        is_top_level_nested == nested_parent_pk(cursor) # None /\ nested_parent_pk(cursor) = pk
        key == IF is_top_level_nested THEN sk ELSE pk
    IN  IF len > limit(cursor) THEN acc
        ELSE IF key \in KeysOf(acc.values)
        THEN QueryResult([i \in 1..len |->
                             IF acc.values[i].key = key
                             THEN QueryValue(key, acc.values[i].rows \cup {x})
                             ELSE acc.values[i]],
                         acc.last_evaluated_key)
        ELSE QueryResult(Append(acc.values, QueryValue(key, {x})),
                         IF len = limit(cursor) THEN pk ELSE acc.last_evaluated_key)

RECURSIVE group_rows(_, _, _)
group_rows(cursor, acc, items) ==
    IF items = <<>> THEN acc
    ELSE group_rows(cursor, group_row(cursor, acc, Head(items)), Tail(items))

Take(seq, n) == SubSeq(seq, 1, IF Len(seq) < n THEN Len(seq) ELSE n)

\* the filter of the n+1 element, after the rows of a page
filter_n_plus_one(cursor, acc) ==
    IF Len(acc.values) > limit(cursor) \/ acc.last_evaluated_key # None
    THEN LET keep(v) == v.key # acc.last_evaluated_key
         IN  QueryResult(Take(SelectSeq(acc.values, keep), limit(cursor)),
                         acc.last_evaluated_key)
    ELSE acc

\* the tables the model reads.  Of a type: the node rows of some ids and, at
\* most, one edge row owned by one of them.  Of a parent: its edge rows, the
\* row (parent, parent) being the node row of a parent linked to itself.
Tables(cursor) ==
    IF is_nested_relation(cursor)
    THEN {{<<nested_parent_pk(cursor), k>> : k \in C} : C \in SUBSET Ids}
    ELSE UNION {{{<<k, k>> : k \in S} \cup E :
                    E \in {{}} \cup {{e} : e \in {x \in S \X S : x[1] # x[2]}}} :
                S \in SUBSET Ids}

NoArgs == [first |-> None, last |-> None, after |-> None, before |-> None, nested |-> None]
EmptyResult == QueryResult(<<>>, None)

-----------------------------------------------------------------------------
(* RequiredFieldSetBuffer::try_insert_into (engine-v2/schema/src/builder/     *)
(* requires.rs).  The composed graph the builder reads:                      *)
(*   federated field 1 -> definition 11, arguments 21 (required, no default) *)
(*                                       and 22 (nullable, default)          *)
(*   federated field 2 -> definition 12, arguments 23 (nullable, no default) *)
(*                                       and 24 (required, default)          *)
(*   federated field 3 and federated input value 5 are not part of the build *)

MaxSets == 2        \* buffered field sets
MaxItems == 2       \* convert_item calls of one try_insert_into
MaxArguments == 2   \* arguments a federated item supplies

FieldIds == 1..3
InputValueIds == 1..5
Values == {7, 8}

\* ctx.idmaps.field.get(id)
idmaps_field(id) == IF id \in 1..2 THEN 10 + id ELSE None

\* ctx.idmaps.input_value.get(id)
idmaps_input_value(id) == IF id \in 1..4 THEN 20 + id ELSE None

\* graph[definition_id].argument_ids, in the order of the schema
argument_ids(definition_id) == IF definition_id = 11 THEN <<21, 22>> ELSE <<23, 24>>

\* graph[input_value_definition_id]: default_value is an id of the arena
InputValueDefinition(id) ==
    CASE id = 21 -> [default_value |-> None, required |-> TRUE]
      [] id = 22 -> [default_value |-> 1, required |-> FALSE]
      [] id = 23 -> [default_value |-> None, required |-> FALSE]
      [] OTHER   -> [default_value |-> 2, required |-> TRUE]

\* graph.input_values when try_insert_into starts: the values of the defaults
SchemaDefaults == <<7, 8>>

FieldSetItem(field, arguments, subselection) ==
    [field |-> field, arguments |-> arguments, subselection |-> subselection]

RequiredField(definition_id, arguments) ==
    [definition_id |-> definition_id, arguments |-> arguments]

NoItem == FieldSetItem(None, <<>>, FALSE)
NoField == RequiredField(None, <<>>)

\* Result<Option<RequiredFieldSetItem>, InputValueError> of convert_item
Conversion(ok, err, name, field, id) ==
    [ok |-> ok, err |-> err, name |-> name, field |-> field, id |-> id]

NoConversion == Conversion(TRUE, "", None, NoField, None)

\* item.arguments.into_iter().filter_map(..): the arguments the build knows,
\* under their local ids
federated_arguments(arguments) ==
    LET mapped == [i \in 1..Len(arguments) |->
                      <<idmaps_input_value(arguments[i][1]), arguments[i][2]>>]
        known(x) == x[1] # None
    IN  SelectSeq(mapped, known)

\* .iter().position(|(id, _)| *id == input_value_definition_id)
position_of(arguments, id) ==
    IF \E i \in 1..Len(arguments) : arguments[i][1] = id
    THEN CHOOSE i \in 1..Len(arguments) :
            arguments[i][1] = id /\ \A j \in 1..(i - 1) : arguments[j][1] # id
    ELSE None

\* Vec::swap_remove(index): the last element takes the place of the removed one
swap_remove(seq, index) ==
    [i \in 1..(Len(seq) - 1) |-> IF i = index THEN seq[Len(seq)] ELSE seq[i]]

\* coercer.coerce(ty, value): the id of the coerced value in the arena, either
\* pushed at its end or the id of an equal value already there, or an error
coerce(values, value, how) ==
    LET same == {i \in 1..Len(values) : values[i] = value}
    IN  IF how = "error" THEN [ok |-> FALSE, id |-> None, input_values |-> values]
        ELSE IF how = "reuse" /\ same # {}
        THEN [ok |-> TRUE, id |-> CHOOSE i \in same : \A j \in same : i <= j,
              input_values |-> values]
        ELSE [ok |-> TRUE, id |-> Len(values) + 1, input_values |-> Append(values, value)]

\* argument_case testing `is_required` before the default
argument_case_required_first(input_value_definition_id, index) ==
    LET input_value_definition == InputValueDefinition(input_value_definition_id)
    IN  IF index # None THEN "coerce"
        ELSE IF input_value_definition.required THEN "missing"
        ELSE IF input_value_definition.default_value # None THEN "default"
        ELSE "omit"

\* convert_item: the branch taken for one declared argument
argument_case(input_value_definition_id, index) ==
    LET input_value_definition == InputValueDefinition(input_value_definition_id)
    IN  IF index # None THEN "coerce"
        ELSE IF input_value_definition.default_value # None THEN "default"
        ELSE IF input_value_definition.required THEN "missing"
        ELSE "omit"

\* convert_item: `for input_value_definition_id in self.graph[definition_id].argument_ids`
RECURSIVE convert_arguments(_, _, _, _, _)
convert_arguments(ids, supplied, values, how, arguments) ==
    IF ids = <<>>
    THEN [err |-> "", name |-> None, arguments |-> arguments, input_values |-> values]
    ELSE LET input_value_definition_id == Head(ids)
             index == position_of(supplied, input_value_definition_id)
             case == argument_case(input_value_definition_id, index)
         IN  CASE case = "coerce" ->
                    LET c == coerce(values, supplied[index][2], how[input_value_definition_id])
                    IN  IF ~c.ok
                        THEN [err |-> "Coercion", name |-> input_value_definition_id,
                              arguments |-> arguments, input_values |-> values]
                        ELSE convert_arguments(Tail(ids), swap_remove(supplied, index),
                                 c.input_values, how,
                                 Append(arguments, <<input_value_definition_id, c.id>>))
               [] case = "default" ->
                    convert_arguments(Tail(ids), supplied, values, how,
                        Append(arguments,
                            <<input_value_definition_id,
                              InputValueDefinition(input_value_definition_id).default_value>>))
               [] case = "missing" ->
                    [err |-> "MissingRequiredArgument", name |-> input_value_definition_id,
                     arguments |-> arguments, input_values |-> values]
               [] OTHER ->
                    convert_arguments(Tail(ids), supplied, values, how, arguments)

\* or_insert_with finding an entry of the same field definition
or_insert_with_same_definition(fields, field, n) ==
    IF \E f \in DOMAIN fields : f.definition_id = field.definition_id
    THEN fields[CHOOSE f \in DOMAIN fields : f.definition_id = field.definition_id]
    ELSE n

\* or_insert_with giving a new field the id n + 1
or_insert_with_skipping(fields, field, n) ==
    IF field \in DOMAIN fields THEN fields[field] ELSE n + 1

\* deduplicated_fields.entry(field).or_insert_with(|| RequiredFieldId::from(n))
or_insert_with(fields, field, n) ==
    IF field \in DOMAIN fields THEN fields[field] ELSE n

\* arguments.sort_unstable_by_key(|(_, id)| *id), then the fields alone
sort_unstable_by_key(fields) ==
    [i \in 1..Cardinality(DOMAIN fields) |->
        CHOOSE f \in DOMAIN fields :
            Cardinality({g \in DOMAIN fields : fields[g] < fields[f]}) = i - 1]

\* the federated input values a federated field declares, and the one that is
\* not part of the build
InputValueIdsOf(field) ==
    {a \in InputValueIds :
        \/ idmaps_input_value(a) = None
        \/ /\ idmaps_field(field) # None
           /\ \E i \in 1..2 : argument_ids(idmaps_field(field))[i] = idmaps_input_value(a)}

\* the arguments a federated item may carry: at most MaxArguments pairs of a
\* federated input value id and a value, no id twice
RECURSIVE ArgumentLists(_, _)
ArgumentLists(field, n) ==
    IF n = 0 THEN {<<>>}
    ELSE LET shorter == ArgumentLists(field, n - 1)
         IN  shorter \cup
             {Append(l, <<a, v>>) :
                 l \in {x \in shorter : Len(x) = n - 1},
                 a \in InputValueIdsOf(field), v \in Values}

NoRepeat(l) == \A i, j \in 1..Len(l) : i # j => l[i][1] # l[j][1]

\* an input value that is not part of the build comes alone, with one value
Alone(l) ==
    \A i \in 1..Len(l) : idmaps_input_value(l[i][1]) = None => (Len(l) = 1 /\ l[i][2] = 7)

FieldSetItems ==
    UNION {{FieldSetItem(f, l, sub) :
               l \in {x \in ArgumentLists(f, MaxArguments) : NoRepeat(x) /\ Alone(x)},
               sub \in BOOLEAN} : f \in FieldIds}

\* the local ids of the arguments an item supplies
Supplied(it) ==
    {idmaps_input_value(it.arguments[i][1]) : i \in 1..Len(it.arguments)} \ {None}

CoerceModes == {"push", "reuse", "error"}

-----------------------------------------------------------------------------
(* try_join_all over the transaction futures *)

\* try_join_all_err undoing what the request wrote
try_join_all_err_rollback(s, before) == before

\* `try_join_all(..).await?` got the error of one future: the resolver returns
\* it; `s` is the table as the futures that completed left it, `before` the
\* table as it was when the request started
try_join_all_err(s, before) == s

-----------------------------------------------------------------------------
(* PartialEq<SchemaInputValue> for the walker of a QueryInputValue          *)
(* (operation/input_value/query/mod.rs).  A value is [tag, v]; the entries  *)
(* of an input object are <<InputValueDefinitionId, value>>, of a map       *)
(* <<key, value>>, of a list the values.                                    *)

\* the order of the strings (str::cmp)
Alphabet == <<"a", "b">>

rank(s) == CHOOSE i \in 1..Len(Alphabet) : Alphabet[i] = s

\* the schema's string table, indexed by StringId
schema_strings == <<"b", "a">>

string_id(s) == CHOOSE i \in 1..Len(schema_strings) : schema_strings[i] = s

CompositeTags == {"InputObject", "List", "Map"}

Value(tag, v) == [tag |-> tag, v |-> v]

NullValue == Value("Null", 0)

\* schema.input_values: the values a QueryInputValue::DefaultValue refers to
SchemaInputValues ==
    <<Value("Int", 1), Value("Map", <<<<string_id("a"), Value("Int", 1)>>>>)>>

QueryLeaves ==
    <<NullValue, Value("String", "a"), Value("String", "b"), Value("EnumValue", 1),
      Value("Int", 1), Value("Int", 2), Value("BigInt", 1), Value("U64", 1),
      Value("Float", 1), Value("Boolean", TRUE), Value("DefaultValue", 1),
      Value("DefaultValue", 2), Value("Variable", 1)>>

SchemaLeaves ==
    <<NullValue, Value("String", string_id("a")), Value("String", string_id("b")),
      Value("EnumValue", 1), Value("Int", 1), Value("Int", 2), Value("BigInt", 1),
      Value("U64", 1), Value("Float", 1), Value("Boolean", TRUE)>>

QueryChildren ==
    <<Value("Int", 1), Value("String", "a"), Value("Map", <<>>),
      Value("List", <<Value("Int", 1)>>), Value("DefaultValue", 1)>>

SchemaChildren ==
    <<Value("Int", 1), Value("String", string_id("a")), Value("Int", 2),
      Value("List", <<Value("Int", 1)>>),
      Value("Map", <<<<string_id("a"), Value("Int", 1)>>>>)>>

\* a value by its shape <<tag or "leaf", first child, second child, first key>>;
\* child 0 is no entry
Shapes(leaves, children) ==
    {<<"leaf", a, 0, 1>> : a \in 1..leaves}
        \cup {s \in CompositeTags \X (0..children) \X (0..children) \X (1..2) :
                /\ s[2] = 0 => s[3] = 0
                /\ (s[2] = 0 \/ s[1] = "List") => s[4] = 1}

\* the operation keeps the fields of an input object and the keys of a map in
\* the order the document gives them
query_entry(tag, k, c) ==
    IF tag = "List" THEN c
    ELSE IF tag = "InputObject" THEN <<k, c>> ELSE <<Alphabet[k], c>>

query_value(s) ==
    IF s[1] = "leaf" THEN QueryLeaves[s[2]]
    ELSE Value(s[1],
               IF s[2] = 0 THEN <<>>
               ELSE IF s[3] = 0 THEN <<query_entry(s[1], s[4], QueryChildren[s[2]])>>
               ELSE <<query_entry(s[1], s[4], QueryChildren[s[2]]),
                      query_entry(s[1], 3 - s[4], QueryChildren[s[3]])>>)

QueryShapes == Shapes(Len(QueryLeaves), Len(QueryChildren))

\* the schema keeps the fields of an input object sorted by id and the entries
\* of a map sorted by key
schema_entry(tag, k, c) ==
    IF tag = "List" THEN c
    ELSE IF tag = "InputObject" THEN <<k, c>> ELSE <<string_id(Alphabet[k]), c>>

schema_value(s) ==
    IF s[1] = "leaf" THEN SchemaLeaves[s[2]]
    ELSE Value(s[1],
               IF s[2] = 0 THEN <<>>
               ELSE IF s[3] = 0 THEN <<schema_entry(s[1], s[4], SchemaChildren[s[2]])>>
               ELSE <<schema_entry(s[1], 1, SchemaChildren[s[2]]),
                      schema_entry(s[1], 2, SchemaChildren[s[3]])>>)

SchemaShapes == {s \in Shapes(Len(SchemaLeaves), Len(SchemaChildren)) : s[3] # 0 => s[4] = 1}

RECURSIVE binary_search_by(_, _, _, _)
\* slice::binary_search_by over keys[lo+1..hi], `keys` the probes' keys in the
\* order of the comparison; the index found, None for Err
binary_search_by(keys, target, lo, hi) ==
    IF lo >= hi THEN None
    ELSE LET mid == lo + (hi - lo) \div 2
         IN IF keys[mid + 1] = target THEN mid + 1
            ELSE IF keys[mid + 1] < target
                 THEN binary_search_by(keys, target, mid + 1, hi)
                 ELSE binary_search_by(keys, target, lo, mid)

field_ids(entries) == [i \in 1..Len(entries) |-> entries[i][1]]

key_ranks(entries) == [i \in 1..Len(entries) |-> rank(schema_strings[entries[i][1]])]

RECURSIVE schema_eq(_, _)
\* the equality of two schema values, read through the schema's tables
schema_eq(l, r) ==
    /\ l.tag = r.tag
    /\ IF l.tag \in CompositeTags
       THEN /\ Len(l.v) = Len(r.v)
            /\ \A i \in 1..Len(l.v) :
                  IF l.tag = "List" THEN schema_eq(l.v[i], r.v[i])
                  ELSE l.v[i][1] = r.v[i][1] /\ schema_eq(l.v[i][2], r.v[i][2])
       ELSE l.v = r.v

RECURSIVE eq(_, _)
\* `l` the operation's value, `r` the schema's; the loops return false at the
\* first entry that is not found or differs
eq(l, r) ==
    CASE l.tag = "Null" /\ r.tag = "Null" -> TRUE
      [] l.tag = "String" /\ r.tag = "String" -> l.v = schema_strings[r.v]
      [] l.tag = "EnumValue" /\ r.tag = "EnumValue" -> l.v = r.v
      [] l.tag = "Int" /\ r.tag = "Int" -> l.v = r.v
      [] l.tag = "BigInt" /\ r.tag = "BigInt" -> l.v = r.v
      [] l.tag = "U64" /\ r.tag = "U64" -> l.v = r.v
      [] l.tag = "Float" /\ r.tag = "Float" -> l.v = r.v
      [] l.tag = "Boolean" /\ r.tag = "Boolean" -> l.v = r.v
      [] l.tag = "InputObject" /\ r.tag = "InputObject" ->
            IF Len(l.v) # Len(r.v) THEN FALSE
            ELSE \A n \in 1..Len(l.v) :
                    LET i == binary_search_by(field_ids(r.v), l.v[n][1], 0, Len(r.v))
                    IN i # None /\ eq(l.v[n][2], r.v[i][2])
      [] l.tag = "List" /\ r.tag = "List" ->
            IF Len(l.v) # Len(r.v) THEN FALSE
            ELSE \A n \in 1..Len(l.v) : eq(l.v[n], r.v[n])
      [] l.tag = "Map" /\ r.tag = "Map" ->
            \A n \in 1..Len(l.v) :
                LET i == binary_search_by(key_ranks(r.v), rank(l.v[n][1]), 0, Len(r.v))
                IN i # None /\ eq(l.v[n][2], r.v[i][2])
      [] l.tag = "DefaultValue" -> schema_eq(SchemaInputValues[l.v], r)
      [] OTHER -> FALSE

NoComparison == [called |-> FALSE, l |-> NullValue, r |-> NullValue, result |-> FALSE]

-----------------------------------------------------------------------------
(* validate_operation (operation/validation/mod.rs).  The two checks it     *)
(* calls are in modules of their own: a limit is exceeded when the          *)
(* operation's count is above the schema's ceiling, introspection is        *)
(* refused when the schema disables it and the operation uses __schema or   *)
(* __type.                                                                  *)

MaxDepth == 3

MaxAliases == 2

MaxComplexity == 3

\* source locations of the operation's fields
MaxLocation == 2

Limits(max) == {None} \cup 1..(max - 1)

Schemas ==
    [depth : Limits(MaxDepth), aliases : Limits(MaxAliases),
     complexity : Limits(MaxComplexity), disable_introspection : BOOLEAN]

\* an operation by what the checks read of it: its counts and the location of
\* its first __schema or __type field, None without one
Operations ==
    [depth : 1..MaxDepth, aliases : 0..MaxAliases, complexity : 1..MaxComplexity,
     introspection : {None} \cup 1..MaxLocation]

LimitKinds == {"depth", "aliases", "complexity"}

NoValidationError == [kind |-> "", limit |-> "", location |-> None]

Valid == [ok |-> TRUE, err |-> NoValidationError]

Invalid(e) == [ok |-> FALSE, err |-> e]

OperationLimitExceeded(kind) ==
    [kind |-> "OperationLimitExceeded", limit |-> kind, location |-> None]

IntrospectionWhenDisabled(location) ==
    [kind |-> "IntrospectionWhenDisabled", limit |-> "", location |-> location]

\* the limits the operation is above
exceeded_limits(schema, operation) ==
    {k \in LimitKinds : schema[k] # None /\ operation[k] > schema[k]}

\* enforce_operation_limits reporting `kind`, one of the limits exceeded
enforce_operation_limits(schema, operation, kind) ==
    IF exceeded_limits(schema, operation) = {} THEN Valid
    ELSE Invalid(OperationLimitExceeded(kind))

ensure_introspection_is_accepted(schema, operation) ==
    IF schema.disable_introspection /\ operation.introspection # None
    THEN Invalid(IntrospectionWhenDisabled(operation.introspection))
    ELSE Valid

\* validate_operation running the introspection check first
validate_operation_introspection_first(limits, introspection) ==
    IF ~introspection.ok THEN introspection
    ELSE IF ~limits.ok THEN limits
    ELSE Valid

\* `limits` and `introspection` are what the two checks return; `?` returns the
\* error of the first
validate_operation(limits, introspection) ==
    IF ~limits.ok THEN limits
    ELSE IF ~introspection.ok THEN introspection
    ELSE Valid

NoGraphqlError == [message |-> "", code |-> "", locations |-> <<>>]

\* From<ValidationError> for GraphqlError
GraphqlError_from(err) ==
    LET locations == IF err.kind = "IntrospectionWhenDisabled"
                     THEN <<err.location>> ELSE <<>>
    IN [message |-> err.kind, code |-> "OperationValidationError", locations |-> locations]

NoValidation ==
    [called |-> FALSE,
     schema |-> [depth |-> None, aliases |-> None, complexity |-> None,
                 disable_introspection |-> FALSE],
     operation |-> [depth |-> 1, aliases |-> 0, complexity |-> 1, introspection |-> None],
     result |-> Valid, error |-> NoGraphqlError]

-----------------------------------------------------------------------------
(* Engine::execute (engine.rs), with the on_gateway_request hook of          *)
(* runtime-local/src/hooks.rs.  A token n is the token provider n accepts;   *)
(* a token above the providers is accepted by none.                          *)

\* authorization tokens a request may carry
MaxToken == 3

\* requests of a batch
MaxBatch == 2

Providers == {1, 2}

\* the headers the engine reads: the authorization token, None without one, and
\* the StreamingFormat of the accept header, None without one
HeaderMaps == [authorization : 0..MaxToken, accept : {None, 1}]

\* an engine by its configured authentication providers and whether a
\* gateway hook is loaded
Engines == [providers : (SUBSET Providers) \ {{}}, hooks : BOOLEAN]

BatchRequests ==
    {[kind |-> "Single", n |-> 1]} \cup [kind : {"Batch"}, n : 0..MaxBatch]

NoRequest ==
    [engine |-> [providers |-> {}, hooks |-> FALSE],
     headers |-> [authorization |-> None, accept |-> None],
     batch_request |-> [kind |-> "Single", n |-> 1]]

NoHeaders == [returned |-> FALSE, authorization |-> None, accept |-> None]

GraphqlError(message, code) == [message |-> message, code |-> code]

NoResponse == [errors |-> <<>>, data |-> FALSE, format |-> None]

\* Response::pre_execution_error: the error alone, no data
pre_execution_error(error) == [errors |-> <<error>>, data |-> FALSE]

\* Response::execution_error: the error, data null
execution_error(error) == [errors |-> <<error>>, data |-> FALSE]

\* HttpGraphqlResponse::build
build(r, format) == [errors |-> r.errors, data |-> r.data, format |-> format]

typed_get_StreamingFormat(h) == h.accept

\* AuthService::authenticate: the access token of the first provider that
\* accepts the headers, None when none does
authenticate(providers, h) ==
    IF h.authorization \in providers THEN h.authorization ELSE None

\* create_request_context building a context whatever authenticate returned
create_request_context_anonymous(access_token) == [ok |-> TRUE, response |-> NoResponse]

\* the end of create_request_context: the context with the access token, or the
\* Unauthenticated response
create_request_context(access_token) ==
    IF access_token # None THEN [ok |-> TRUE, response |-> NoResponse]
    ELSE [ok |-> FALSE,
          response |-> build(pre_execution_error(
                                 GraphqlError("Unauthenticated", "UNAUTHENTICATED")), None)]

\* what a loaded hook may answer
HookOutcomes == {"ok", "guest", "internal"}

hook_error(answer) ==
    IF answer = "internal" THEN GraphqlError("Internal hook error", "HOOK_ERROR")
    ELSE GraphqlError("guest error", "BAD_REQUEST")

-----------------------------------------------------------------------------
(* QueryInputValues (operation/input_value/query/mod.rs): three vectors; the *)
(* slot of index i is the element i + 1 of the sequence, and an IdRange is   *)
(* the half-open interval start..end of indices.                            *)

MaxCalls == 3      \* calls made on one QueryInputValues
MaxReserve == 2    \* slots one call reserves, fields one call appends

\* #[derive(Default)]
QueryInputValues_default == [values |-> <<>>, input_fields |-> <<>>, key_values |-> <<>>]

IdRange(start, end) == [start |-> start, end |-> end]

\* the values pushed and the fields appended
PushedValues == {NullValue, Value("Int", 1)}

RECURSIVE FieldLists(_)
FieldLists(n) ==
    IF n = 0 THEN {<<>>}
    ELSE FieldLists(n - 1)
         \cup {Append(l, <<1, v>>) : l \in {x \in FieldLists(n - 1) : Len(x) = n - 1},
                                     v \in PushedValues}

\* `for _ in 0..n { vec.push(slot) }`
push_n(vec, n, slot) == vec \o [i \in 1..n |-> slot]

push_value(self, value) ==
    LET id == Len(self.values)
    IN  [self |-> [self EXCEPT !.values = Append(@, value)], id |-> id]

\* reserve_list that reserves capacity and pushes nothing
reserve_list_capacity_only(self, n) ==
    LET start == Len(self.values)
    IN  [self |-> self, range |-> IdRange(start, Len(self.values))]

reserve_list(self, n) ==
    LET start == Len(self.values)
        pushed == [self EXCEPT !.values = push_n(@, n, NullValue)]
    IN  [self |-> pushed, range |-> IdRange(start, Len(pushed.values))]

reserve_map(self, n) ==
    LET start == Len(self.key_values)
        pushed == [self EXCEPT !.key_values = push_n(@, n, <<"", NullValue>>)]
    IN  [self |-> pushed, range |-> IdRange(start, Len(pushed.key_values))]

\* Vec::append moves the fields and leaves `fields` empty
append_input_object(self, fields) ==
    LET start == Len(self.input_fields)
        appended == [self EXCEPT !.input_fields = @ \o fields]
    IN  [self |-> appended, fields |-> <<>>,
         range |-> IdRange(start, Len(appended.input_fields))]

\* what a call handed back: the vector, the count asked for, the length of the
\* vector before the call, the range, and the content of its slots at that time
Handle(name, vec, n, before, range, self) ==
    [op |-> name, vec |-> vec, n |-> n, before |-> before,
     start |-> range.start, end |-> range.end,
     content |-> SubSeq(self[vec], range.start + 1, range.end)]

-----------------------------------------------------------------------------
(* The typed ids of the NonZeroU32! macro (engine-v2/id-newtypes/src/lib.rs). *)
(* u32 is modelled IdBits bits wide, usize wider than that.                  *)

IdBits == 4      \* width of the model's u32
MaxIds == 2      \* ids built in one run

U32_MAX == 2^IdBits - 1

\* the usize values an id is built from: the range of u32 and beyond
Indices == 0..(U32_MAX + 2)

\* `$(|max($max))?`: the macro is used without a maximum or with one
MaxOptions == {[some |-> FALSE, v |-> 0], [some |-> TRUE, v |-> 2^(IdBits - 1)]}

\* u32::try_from(value).ok()
u32_try_from(value) ==
    IF value <= U32_MAX THEN [some |-> TRUE, v |-> value] ELSE [some |-> FALSE, v |-> 0]

\* NonZeroU32::new(v)
NonZeroU32_new(v) == [some |-> v # 0, v |-> v]

Panicked(message) == [built |-> FALSE, stored |-> 0, message |-> message]
Built(stored) == [built |-> TRUE, stored |-> stored, message |-> ""]

\* From<usize> converting with `value as u32`, which truncates
from_usize_truncating(value, max, overflow_checks) ==
    LET sum == (value % 2^IdBits) + 1
    IN  IF max.some /\ value > max.v THEN Panicked("exceeds maximum")
        ELSE IF sum > U32_MAX /\ overflow_checks
        THEN Panicked("attempt to add with overflow")
        ELSE IF ~NonZeroU32_new(sum % 2^IdBits).some THEN Panicked("Too many")
        ELSE Built(sum % 2^IdBits)

\* impl From<usize> for $name.  `value + 1` is a u32 addition: with overflow
\* checks it panics at u32::MAX, without them it wraps to 0, which
\* NonZeroU32::new refuses
from_usize(value, max, overflow_checks) ==
    LET converted_value == u32_try_from(value)
        sum == converted_value.v + 1
    IN  IF max.some /\ value > max.v THEN Panicked("exceeds maximum")
        ELSE IF ~converted_value.some THEN Panicked("Too many")
        ELSE IF sum > U32_MAX /\ overflow_checks
        THEN Panicked("attempt to add with overflow")
        ELSE IF ~NonZeroU32_new(sum % 2^IdBits).some THEN Panicked("Too many")
        ELSE Built(sum % 2^IdBits)

\* impl From<$name> for usize: (id.0.get() - 1) as usize
usize_from(id) == id.stored - 1

\* derive(PartialOrd, Ord) on the tuple struct: the order of the stored values
id_lt(a, b) == a.stored < b.stored

-----------------------------------------------------------------------------
(* Actions *)

Init ==
    /\ store = [k \in {<<ConstraintId, ConstraintId>>} |-> Row(Attrs("__C", NoVal, 0), {})]
    /\ pre = store
    /\ now = 0
    /\ nmut = 0
    /\ nfail = 0
    /\ pc = "idle"
    /\ op = [kind |-> "none", id |-> <<>>, input |-> NoInput]
    /\ txs = <<>>
    /\ pending = {}
    /\ sels = <<>>
    /\ polls = <<>>
    /\ submitted = 0
    /\ selFailed = FALSE
    /\ errors = {}
    /\ outcome = "none"
    /\ qpc = "new"
    /\ args = NoArgs
    /\ created = Err("")
    /\ table = {}
    /\ pos = 0
    /\ qresult = EmptyResult
    /\ actual_state = "Next"
    /\ queries = 0
    /\ call = 0
    /\ page1 = [cursor |-> NoCursor, result |-> EmptyResult]
    /\ bpc = "convert"
    /\ deduplicated_fields = <<>>
    /\ input_values = SchemaDefaults
    /\ required_field_sets = <<>>
    /\ position = [set |-> 1, depth |-> 0, items |-> 0]
    /\ last_item = NoItem
    /\ converted = NoConversion
    /\ graph = [required_fields |-> <<>>, required_field_sets |-> <<>>]
    /\ comparison = NoComparison
    /\ validation = NoValidation
    /\ epc = "idle"
    /\ request = NoRequest
    /\ headers = NoHeaders
    /\ response = NoResponse
    /\ limiter_calls = 0
    /\ executions = 0
    /\ query_input_values = QueryInputValues_default
    /\ handles = <<>>
    /\ typed_ids = <<>>

\* the selections the transaction futures of a request await
SelectionsOf(transaction) ==
    {tx.parent : tx \in {transaction[i] : i \in 1..Len(transaction)}}
    \cup {tx.selected : tx \in {transaction[i] : i \in 1..Len(transaction)}}

\* the selections of the nodes being created are ready when the futures are built:
\* they resolve to the projected item
ProjOutputs(root, transaction) ==
    LET projs == {x \in SelectionsOf(transaction) \cup {root} : x.kind = "proj"}
    IN  [k \in {SelKey(x) : x \in projs} |->
            LET x == CHOOSE y \in projs : SelKey(y) = k
                items == SelItems(x, store, now)
            IN  Output(TRUE, items, CHOOSE f \in Firsts(items) : TRUE)]

\* Utc::now(): the clock has moved on since it was last read
UtcNow == now + 1

Merge(f, g) == [k \in DOMAIN f \cup DOMAIN g |-> IF k \in DOMAIN g THEN g[k] ELSE f[k]]

\* the count of requests is bounded where a specification picks the request
Begin(kind, id, input) ==
    /\ pc = "idle"
    /\ nmut' = nmut + 1
    /\ op' = [kind |-> kind, id |-> id, input |-> input]
    /\ pre' = store
    /\ UNCHANGED exceptMutationVars

\* DynamoMutationResolver::CreateNode, up to `creation.selection.await?`
CreateNode(ty, input) ==
    LET execution_id == nmut + 1
        creation == node_create(ty, execution_id, input, <<>>, UtcNow)
        outputs == ProjOutputs(creation.selection, creation.transaction)
    IN  /\ Begin("create", <<ty, execution_id>>, input)
        /\ txs' = creation.transaction
        /\ pending' = 1..Len(creation.transaction)
        /\ sels' = outputs
        /\ polls' = [k \in DOMAIN outputs |-> 1]
        /\ errors' = creation.errors
        /\ selFailed' = FALSE
        /\ outcome' = "none"
        /\ pc' = "tx"
        /\ submitted' = 0
        /\ now' = UtcNow
        /\ UNCHANGED <<store, nfail>>

\* DynamoMutationResolver::UpdateNode, up to `update.selection.await?`: the join
\* of selection_entity_updated and select_entities_to_update
UpdateNode(id, input, fail_updated, fail_reversed, first) ==
    LET update == node_update(IdType(id), nmut + 1, input, id, UtcNow)
        updated == update.selection
        reversed == Sel("reversed", <<>>, {<<id, id>>}, NoAttrs)
        items == SelItems(updated, store, UtcNow)
        ritems == SelItems(reversed, store, UtcNow)
        outputs ==
            Merge(ProjOutputs(updated, update.transaction),
                  [k \in {SelKey(updated), SelKey(reversed)} |->
                      IF k = SelKey(updated)
                      THEN IF fail_updated THEN ErrOutput ELSE Output(TRUE, items, first)
                      ELSE IF fail_reversed THEN ErrOutput
                           ELSE Output(TRUE, ritems, CHOOSE f \in Firsts(ritems) : TRUE)])
        failures == (IF fail_updated THEN 1 ELSE 0) + (IF fail_reversed THEN 1 ELSE 0)
    IN  /\ Begin("update", id, input)
        /\ first \in Firsts(items)
        /\ nfail + failures <= MaxFailures
        /\ nfail' = nfail + failures
        /\ txs' = update.transaction
        /\ sels' = outputs
        /\ polls' = [k \in DOMAIN outputs |-> 1]
        /\ errors' = update.errors
        /\ selFailed' = (fail_updated \/ fail_reversed)
        /\ IF fail_updated
           THEN pending' = {} /\ outcome' = "err" /\ pc' = "idle"
           ELSE pending' = 1..Len(update.transaction) /\ outcome' = "none" /\ pc' = "tx"
        /\ submitted' = 0
        /\ now' = UtcNow
        /\ UNCHANGED store

\* a shared selection awaited by a transaction future is polled for the first
\* time: the load runs against the store as it is now
PollSelection(i, fail) ==
    /\ pc = "tx"
    /\ i \in pending
    /\ \E a \in NextAwait(sels, txs[i]) :
         LET sel == Awaits(txs[i])[a]
             items == SelItems(sel, store, now)
         IN  \E first \in Firsts(items) :
               /\ sels' = Merge(sels, [k \in {SelKey(sel)} |->
                                 IF fail THEN ErrOutput ELSE Output(TRUE, items, first)])
               /\ polls' = Merge(polls, [k \in {SelKey(sel)} |->
                                 IF k \in DOMAIN polls THEN polls[k] + 1 ELSE 1])
    /\ fail => nfail < MaxFailures
    /\ nfail' = IF fail THEN nfail + 1 ELSE nfail
    /\ selFailed' = (selFailed \/ fail)
    /\ UNCHANGED <<store, pre, now, nmut, pc, op, txs, pending, submitted, errors, outcome>>
    /\ UNCHANGED exceptMutationVars

\* a transaction future runs to its end: it hands its TxItems to the transaction
\* batcher, which commits them or fails
RunTransaction(i, fail) ==
    /\ pc = "tx"
    /\ i \in pending
    /\ AwaitsDone(sels, txs[i])
    /\ LET items == ItemsOf(sels, txs[i], UtcNow)
           rejected == fail \/ ~CanCommit(store, items)
       IN  /\ fail => (nfail < MaxFailures /\ items # {})
           /\ nfail' = IF fail THEN nfail + 1 ELSE nfail
           /\ submitted' = submitted + Cardinality(items)
           /\ IF rejected
              THEN /\ store' = try_join_all_err(store, pre)
                   /\ pending' = {}
                   /\ outcome' = "err"
                   /\ pc' = "idle"
              ELSE /\ store' = Commit(store, items)
                   /\ pending' = pending \ {i}
                   /\ UNCHANGED <<outcome, pc>>
    /\ now' = IF txs[i].kind = "update" THEN UtcNow ELSE now
    /\ UNCHANGED <<pre, nmut, op, txs, sels, polls, selFailed, errors>>
    /\ UNCHANGED exceptMutationVars

\* a transaction future returns the error of a selection it awaited
SelectionError(i) ==
    /\ pc = "tx"
    /\ i \in pending
    /\ AwaitFails(sels, txs[i])
    /\ store' = try_join_all_err(store, pre)
    /\ pending' = {}
    /\ outcome' = "err"
    /\ pc' = "idle"
    /\ UNCHANGED <<pre, now, nmut, nfail, op, txs, sels, polls, submitted,
                   selFailed, errors>>
    /\ UNCHANGED exceptMutationVars

\* try_join_all returns Ok: the resolver answers {"id": ...}
Finish ==
    /\ pc = "tx"
    /\ pending = {}
    /\ outcome' = "ok"
    /\ pc' = "idle"
    /\ UNCHANGED <<store, pre, now, nmut, nfail, op, txs, pending, sels, polls,
                   submitted, selFailed, errors>>
    /\ UNCHANGED exceptMutationVars

\* is_empty answering that there always is an item
is_empty_never(items) == FALSE

\* DeleteNode: items_to_be_deleted.is_empty()
is_empty(items) == items = {}

\* DynamoMutationResolver::DeleteNode
DeleteNode(id, fail_fetch, fail_tx) ==
    LET items == items_to_be_deleted(query(store, id), query_reversed(store, id))
        failures == (IF fail_fetch \/ fail_tx THEN 1 ELSE 0)
    IN  /\ Begin("delete", id, NoInput)
        /\ ~(fail_fetch /\ fail_tx)
        /\ fail_tx => ~is_empty(items)
        /\ nfail + failures <= MaxFailures
        /\ nfail' = nfail + failures
        /\ txs' = <<>>
        /\ pending' = {}
        /\ sels' = <<>>
        /\ polls' = <<>>
        /\ errors' = {}
        /\ selFailed' = fail_fetch
        /\ pc' = "idle"
        /\ IF fail_fetch
           THEN outcome' = "err" /\ store' = store /\ submitted' = 0
           ELSE IF is_empty(items)
           THEN outcome' = "notfound" /\ store' = store /\ submitted' = 0
           ELSE IF fail_tx
           THEN outcome' = "err" /\ store' = store /\ submitted' = Cardinality(items)
           ELSE outcome' = "ok" /\ store' = Commit(store, items)
                /\ submitted' = Cardinality(items)
        /\ UNCHANGED now

Next ==
    \/ /\ pc = "idle" /\ nmut < MaxMutations
       /\ \E ty \in Types : \E input \in Inputs(ty, {1}) : CreateNode(ty, input)
    \/ /\ pc = "idle" /\ nmut < MaxMutations
       /\ \E ty \in Types : \E id \in KnownIds(ty) : \E input \in Inputs(ty, {NoVal, 2}) :
            \E fu, fr \in BOOLEAN : \E first \in {<<>>, <<<<id, id>>>>} :
                UpdateNode(id, input, fu, fr, first)
    \/ /\ pc = "idle" /\ nmut < MaxMutations
       /\ \E ty \in Types : \E id \in KnownIds(ty) \cup {ConstraintId} :
            \E ff, ft \in BOOLEAN : DeleteNode(id, ff, ft)
    \/ \E i \in pending : \E fail \in BOOLEAN : PollSelection(i, fail)
    \/ \E i \in pending : \E fail \in BOOLEAN : RunTransaction(i, fail)
    \/ \E i \in pending : SelectionError(i)
    \/ Finish

Spec == Init /\ [][Next]_vars

-----------------------------------------------------------------------------
(* SpecLink: creations of plain nodes, then CreateNode requests whose relation *)
(* field links a list of ids                                                  *)

\* requests of SpecLink: two targets and the request that links them
MaxLinkMutations == MaxMutations + 1

LinkInputs ==
    {[basic |-> 1, rels |-> [f1 |-> a, f2 |-> <<>>]] :
        a \in {<<Link(S)>> : S \in IdSets("T2")}}
    \cup {[basic |-> 1, rels |-> [f1 |-> <<>>, f2 |-> b]] :
            b \in {<<Link(S)>> : S \in IdSets("T2")}}

NextLink ==
    \/ /\ pc = "idle" /\ nmut < MaxLinkMutations
       /\ \E ty \in Types : CreateNode(ty, PlainInput(1))
    \/ /\ pc = "idle" /\ nmut < MaxLinkMutations
       /\ \E input \in LinkInputs : CreateNode("T1", input)
    \/ \E i \in pending : \E fail \in BOOLEAN : PollSelection(i, fail)
    \/ \E i \in pending : \E fail \in BOOLEAN : RunTransaction(i, fail)
    \/ \E i \in pending : SelectionError(i)
    \/ Finish

SpecLink == Init /\ [][NextLink]_vars

-----------------------------------------------------------------------------
(* SpecUnlink: a node created with a child under one relation, then         *)
(* UpdateNode requests that link or unlink ids under one relation field     *)

\* requests of SpecUnlink: the creation, a link under the other relation, an unlink
MaxUnlinkMutations == MaxMutations + 1

OneFieldInputs ==
    {[basic |-> NoVal, rels |-> [f1 |-> a, f2 |-> <<>>]] :
        a \in {<<Unlink(S)>> : S \in IdSets("T2")}}
    \cup {[basic |-> NoVal, rels |-> [f1 |-> <<>>, f2 |-> b]] :
            b \in {<<Link(S)>> : S \in IdSets("T2")} \cup {<<Unlink(S)>> : S \in IdSets("T2")}}

NextUnlink ==
    \/ /\ pc = "idle" /\ nmut < MaxUnlinkMutations
       /\ CreateNode("T1", [basic |-> 1, rels |-> [f1 |-> <<Create(PlainInput(1))>>, f2 |-> <<>>]])
    \/ /\ pc = "idle" /\ nmut < MaxUnlinkMutations
       /\ \E id \in KnownIds("T1") : \E input \in OneFieldInputs :
            UpdateNode(id, input, FALSE, FALSE, <<<<id, id>>>>)
    \/ \E i \in pending : \E fail \in BOOLEAN : PollSelection(i, fail)
    \/ \E i \in pending : \E fail \in BOOLEAN : RunTransaction(i, fail)
    \/ \E i \in pending : SelectionError(i)
    \/ Finish

SpecUnlink == Init /\ [][NextUnlink]_vars

-----------------------------------------------------------------------------
(* Actions of the paginated query *)

\* a resolver builds the cursor of a request
FromGraphql(first, last, after, before, nested) ==
    /\ qpc = "new"
    /\ args' = [first |-> first, last |-> last, after |-> after, before |-> before,
                nested |-> nested]
    /\ created' = from_graphql(first, last, after, before, nested)
    /\ qpc' = IF created'.ok THEN "cursor" ELSE "error"
    /\ UNCHANGED <<table, pos, qresult, actual_state, queries, call, page1>>
    /\ UNCHANGED exceptCursorVars

\* query_node_edges is called with the cursor, up to the loop
QueryStart(rows) ==
    /\ qpc = "cursor"
    /\ rows \in Tables(created.cursor)
    /\ table' = rows
    /\ pos' = 0
    /\ qresult' = EmptyResult
    /\ actual_state' = "Next"
    /\ queries' = 0
    /\ call' = 1
    /\ qpc' = "loop"
    /\ UNCHANGED <<args, created, page1>>
    /\ UNCHANGED exceptCursorVars

\* one turn of the loop: the store answers with the next n rows of the scan
\* and, when `more`, a continuation token
FetchPage(n, more) ==
    LET cursor == created.cursor
        scan == Scan(cursor, table)
        left == Len(scan) - pos
    IN  /\ qpc = "loop"
        /\ Len(qresult.values) <= limit(cursor)
        /\ actual_state = "Next"
        /\ n <= left
        /\ n = 0 => left = 0
        /\ n < left => more
        /\ n = 0 => ~more
        /\ qresult' = filter_n_plus_one(cursor,
                        group_rows(cursor, qresult, SubSeq(scan, pos + 1, pos + n)))
        /\ pos' = pos + n
        /\ queries' = queries + 1
        /\ actual_state' = IF more THEN "Next" ELSE "End"
        /\ UNCHANGED <<qpc, args, created, table, call, page1>>
        /\ UNCHANGED exceptCursorVars

\* the loop ends and query_node_edges returns Ok(qresult)
QueryReturn ==
    /\ qpc = "loop"
    /\ Len(qresult.values) > limit(created.cursor) \/ actual_state = "End"
    /\ qpc' = "returned"
    /\ page1' = IF call = 1 THEN [cursor |-> created.cursor, result |-> qresult] ELSE page1
    /\ UNCHANGED <<args, created, table, pos, qresult, actual_state, queries, call>>
    /\ UNCHANGED exceptCursorVars

\* the client asks for the next page: the last_evaluated_key of a first page it
\* asked without `after` / `before` becomes the `after` / `before` of a second call
NextPage ==
    LET cursor == created.cursor
        key == qresult.last_evaluated_key
        forward == cursor.kind = "Forward"
        next == [first |-> IF forward THEN limit(cursor) ELSE None,
                 last |-> IF forward THEN None ELSE limit(cursor),
                 after |-> IF forward THEN key ELSE None,
                 before |-> IF forward THEN None ELSE key,
                 nested |-> cursor.nested]
    IN  /\ qpc = "returned"
        /\ call = 1
        /\ pagination_string(cursor) = None
        /\ key # None
        /\ args' = next
        /\ created' = from_graphql(next.first, next.last, next.after, next.before,
                                   next.nested)
        /\ pos' = 0
        /\ qresult' = EmptyResult
        /\ actual_state' = "Next"
        /\ queries' = 0
        /\ call' = 2
        /\ qpc' = "loop"
        /\ UNCHANGED <<table, page1>>
        /\ UNCHANGED exceptCursorVars

NextCursor ==
    \/ /\ qpc = "new"
       /\ \E first, last \in 0..MaxLimit : \E after, before, nested \in 0..MaxKey :
             FromGraphql(first, last, after, before, nested)
    \/ /\ qpc = "cursor"
       /\ \E rows \in Tables(created.cursor) : QueryStart(rows)
    \/ /\ qpc = "loop"
       /\ \E n \in 0..(Len(Scan(created.cursor, table)) - pos) : \E more \in BOOLEAN :
             FetchPage(n, more)
    \/ QueryReturn
    \/ NextPage

SpecPage == Init /\ [][NextCursor]_vars

-----------------------------------------------------------------------------
(* Actions of try_insert_into *)

\* ConvertItem returning an error for a field that is not part of the build
ConvertItem_unknown_field_fails(it, how) ==
    LET definition_id == idmaps_field(it.field)
        r == convert_arguments(argument_ids(definition_id),
                               federated_arguments(it.arguments), input_values, how, <<>>)
        field == RequiredField(definition_id, r.arguments)
        n == Cardinality(DOMAIN deduplicated_fields)
        id == or_insert_with(deduplicated_fields, field, n)
    IN  /\ bpc = "convert"
        /\ position.items < MaxItems
        /\ last_item' = it
        /\ IF definition_id = None
           THEN /\ converted' = Conversion(FALSE, "UnknownField", None, NoField, None)
                /\ bpc' = "err"
                /\ position' = [position EXCEPT !.items = @ + 1]
                /\ UNCHANGED <<deduplicated_fields, input_values, required_field_sets>>
           ELSE IF r.err # ""
           THEN \* the error leaves convert_set and try_insert_into through `?`
                /\ converted' = Conversion(FALSE, r.err, r.name, NoField, None)
                /\ bpc' = "err"
                /\ input_values' = r.input_values
                /\ position' = [position EXCEPT !.items = @ + 1]
                /\ UNCHANGED <<deduplicated_fields, required_field_sets>>
           ELSE /\ converted' = Conversion(TRUE, "", None, field, id)
                /\ deduplicated_fields' =
                      IF field \in DOMAIN deduplicated_fields THEN deduplicated_fields
                      ELSE Merge(deduplicated_fields, [f \in {field} |-> id])
                /\ input_values' = r.input_values
                /\ required_field_sets' =
                      Append(required_field_sets,
                             [set |-> position.set, depth |-> position.depth,
                              field |-> field, id |-> id])
                /\ position' = [position EXCEPT
                                  !.items = @ + 1,
                                  !.depth = IF it.subselection THEN @ + 1 ELSE @]
                /\ UNCHANGED bpc
        /\ UNCHANGED graph
        /\ UNCHANGED exceptRequiresVars

\* one convert_item call, up to its recursion into the subselection
ConvertItem(it, how) ==
    LET definition_id == idmaps_field(it.field)
        r == convert_arguments(argument_ids(definition_id),
                               federated_arguments(it.arguments), input_values, how, <<>>)
        field == RequiredField(definition_id, r.arguments)
        n == Cardinality(DOMAIN deduplicated_fields)
        id == or_insert_with(deduplicated_fields, field, n)
    IN  /\ bpc = "convert"
        /\ position.items < MaxItems
        /\ last_item' = it
        /\ IF definition_id = None
           THEN \* return Ok(None): the item is dropped with its subselection
                /\ converted' = NoConversion
                /\ position' = [position EXCEPT !.items = @ + 1]
                /\ UNCHANGED <<bpc, deduplicated_fields, input_values, required_field_sets>>
           ELSE IF r.err # ""
           THEN \* the error leaves convert_set and try_insert_into through `?`
                /\ converted' = Conversion(FALSE, r.err, r.name, NoField, None)
                /\ bpc' = "err"
                /\ input_values' = r.input_values
                /\ position' = [position EXCEPT !.items = @ + 1]
                /\ UNCHANGED <<deduplicated_fields, required_field_sets>>
           ELSE /\ converted' = Conversion(TRUE, "", None, field, id)
                /\ deduplicated_fields' =
                      IF field \in DOMAIN deduplicated_fields THEN deduplicated_fields
                      ELSE Merge(deduplicated_fields, [f \in {field} |-> id])
                /\ input_values' = r.input_values
                /\ required_field_sets' =
                      Append(required_field_sets,
                             [set |-> position.set, depth |-> position.depth,
                              field |-> field, id |-> id])
                /\ position' = [position EXCEPT
                                  !.items = @ + 1,
                                  !.depth = IF it.subselection THEN @ + 1 ELSE @]
                /\ UNCHANGED bpc
        /\ UNCHANGED graph
        /\ UNCHANGED exceptRequiresVars

\* convert_set returns: the subselection of an item, or a buffered field set,
\* has no further item
EndSet ==
    /\ bpc = "convert"
    /\ IF position.depth > 0
       THEN position' = [position EXCEPT !.depth = @ - 1]
       ELSE /\ position.set < MaxSets
            /\ position' = [position EXCEPT !.set = @ + 1]
    /\ UNCHANGED <<bpc, deduplicated_fields, input_values, required_field_sets, last_item,
                   converted, graph>>
    /\ UNCHANGED exceptRequiresVars

\* the last buffered set is converted: try_insert_into fills the graph
InsertInto ==
    /\ bpc = "convert"
    /\ position.depth = 0
    /\ bpc' = "ok"
    /\ graph' = [required_fields |-> sort_unstable_by_key(deduplicated_fields),
                 required_field_sets |-> required_field_sets]
    /\ UNCHANGED <<deduplicated_fields, input_values, required_field_sets, position,
                   last_item, converted>>
    /\ UNCHANGED exceptRequiresVars

NextRequires ==
    \/ /\ bpc = "convert" /\ position.items < MaxItems
       /\ \E it \in FieldSetItems :
             \E how \in [Supplied(it) -> CoerceModes] : ConvertItem(it, how)
    \/ EndSet
    \/ InsertInto

SpecRequires == Init /\ [][NextRequires]_vars

-----------------------------------------------------------------------------
(* SpecEq: one comparison of an operation value with a schema value *)

Compare(l, r) ==
    /\ ~comparison.called
    /\ comparison' = [called |-> TRUE, l |-> l, r |-> r, result |-> eq(l, r)]
    /\ UNCHANGED exceptEqVars

NextEq ==
    /\ ~comparison.called
    /\ \E s \in QueryShapes : \E t \in SchemaShapes :
          Compare(query_value(s), schema_value(t))

SpecEq == Init /\ [][NextEq]_vars

-----------------------------------------------------------------------------
(* SpecValidation: one validate_operation call and the conversion of its error *)

ValidateOperation(schema, operation, kind) ==
    /\ ~validation.called
    /\ LET result == validate_operation(enforce_operation_limits(schema, operation, kind),
                                        ensure_introspection_is_accepted(schema, operation))
       IN validation' = [called |-> TRUE, schema |-> schema, operation |-> operation,
                         result |-> result,
                         error |-> IF result.ok THEN NoGraphqlError
                                   ELSE GraphqlError_from(result.err)]
    /\ UNCHANGED exceptValidationVars

NextValidation ==
    /\ ~validation.called
    /\ \E schema \in Schemas : \E operation \in Operations :
          \E kind \in (IF exceeded_limits(schema, operation) = {} THEN {""}
                        ELSE exceeded_limits(schema, operation)) :
             ValidateOperation(schema, operation, kind)

SpecValidation == Init /\ [][NextValidation]_vars

-----------------------------------------------------------------------------
(* SpecEngine: Engine::execute on one request, an action per await *)

format == typed_get_StreamingFormat(request.headers)

\* execute is called: create_request_context starts with the gateway hook
Execute(engine, h, batch_request) ==
    /\ epc = "idle"
    /\ request' = [engine |-> engine, headers |-> h, batch_request |-> batch_request]
    /\ epc' = "hook"
    /\ UNCHANGED <<headers, response, limiter_calls, executions>>
    /\ UNCHANGED exceptEngineVars

\* on_gateway_request returns: without a hook the headers as they came, with a
\* hook the headers it hands back or its error, which execute returns
OnGatewayRequest(answer, h) ==
    /\ epc = "hook"
    /\ IF ~request.engine.hooks
       THEN /\ answer = "ok" /\ h = request.headers
            /\ headers' = [returned |-> TRUE, authorization |-> h.authorization,
                           accept |-> h.accept]
            /\ epc' = "auth"
            /\ UNCHANGED response
       ELSE IF answer = "ok"
       THEN /\ headers' = [returned |-> TRUE, authorization |-> h.authorization,
                           accept |-> h.accept]
            /\ epc' = "auth"
            /\ UNCHANGED response
       ELSE /\ response' = build(pre_execution_error(hook_error(answer)), format)
            /\ epc' = "done"
            /\ UNCHANGED headers
    /\ UNCHANGED <<request, limiter_calls, executions>>
    /\ UNCHANGED exceptEngineVars

\* self.auth.authenticate(&headers) returns
Authenticate ==
    /\ epc = "auth"
    /\ LET context == create_request_context(authenticate(request.engine.providers, headers))
       IN IF context.ok
          THEN epc' = "limit" /\ UNCHANGED response
          ELSE epc' = "done" /\ response' = build(context.response, format)
    /\ UNCHANGED <<request, headers, limiter_calls, executions>>
    /\ UNCHANGED exceptEngineVars

\* rate_limiter().limit(&RateLimitKey::Global) returns
RateLimit(allowed) ==
    /\ epc = "limit"
    /\ limiter_calls' = limiter_calls + 1
    /\ IF allowed
       THEN epc' = "run" /\ UNCHANGED response
       ELSE /\ epc' = "done"
            /\ response' = build(pre_execution_error(
                                     GraphqlError("Too many requests", "RATE_LIMITED")),
                                 format)
    /\ UNCHANGED <<request, headers, executions>>
    /\ UNCHANGED exceptEngineVars

\* the timeout wins the select, `done` operations of the batch executed by then
GatewayTimeout(done) ==
    /\ epc = "run"
    /\ format = None
    /\ done <= request.batch_request.n
    /\ executions' = done
    /\ response' = build(execution_error(GraphqlError("Gateway timeout", "GATEWAY_TIMEOUT")),
                         format)
    /\ epc' = "done"
    /\ UNCHANGED <<request, headers, limiter_calls>>
    /\ UNCHANGED exceptEngineVars

\* execute_maybe_batch wins the select
ExecuteMaybeBatch ==
    /\ epc = "run"
    /\ IF request.batch_request.kind = "Batch" /\ format # None
       THEN /\ response' = build(pre_execution_error(
                    GraphqlError("batch requests can't use multipart or event-stream responses",
                                 "BAD_REQUEST")), format)
            /\ UNCHANGED executions
       ELSE /\ response' = [errors |-> <<>>, data |-> TRUE, format |-> format]
            /\ executions' = request.batch_request.n
    /\ epc' = "done"
    /\ UNCHANGED <<request, headers, limiter_calls>>
    /\ UNCHANGED exceptEngineVars

NextEngine ==
    \/ /\ epc = "idle"
       /\ \E engine \in Engines : \E h \in HeaderMaps : \E batch_request \in BatchRequests :
             Execute(engine, h, batch_request)
    \/ /\ epc = "hook"
       /\ \E answer \in HookOutcomes : \E h \in HeaderMaps : OnGatewayRequest(answer, h)
    \/ Authenticate
    \/ \E allowed \in BOOLEAN : RateLimit(allowed)
    \/ /\ epc = "run"
       /\ \E done \in 0..MaxBatch : GatewayTimeout(done)
    \/ ExecuteMaybeBatch

SpecEngine == Init /\ [][NextEngine]_vars

-----------------------------------------------------------------------------
(* Actions on QueryInputValues *)

Returns(self, handle) ==
    /\ Len(handles) < MaxCalls
    /\ query_input_values' = self
    /\ handles' = Append(handles, handle)
    /\ UNCHANGED exceptArenaVars

PushValue(value) ==
    LET r == push_value(query_input_values, value)
    IN  Returns(r.self, Handle("push_value", "values", 1, Len(query_input_values.values),
                               IdRange(r.id, r.id + 1), r.self))

ReserveList(n) ==
    LET r == reserve_list(query_input_values, n)
    IN  Returns(r.self, Handle("reserve_list", "values", n,
                               Len(query_input_values.values), r.range, r.self))

ReserveMap(n) ==
    LET r == reserve_map(query_input_values, n)
    IN  Returns(r.self, Handle("reserve_map", "key_values", n,
                               Len(query_input_values.key_values), r.range, r.self))

AppendInputObject(fields) ==
    LET r == append_input_object(query_input_values, fields)
    IN  Returns(r.self, Handle("append_input_object", "input_fields", Len(fields),
                               Len(query_input_values.input_fields), r.range, r.self))

NextArena ==
    \/ /\ Len(handles) < MaxCalls
       /\ \E value \in PushedValues : PushValue(value)
    \/ /\ Len(handles) < MaxCalls
       /\ \E n \in 0..MaxReserve : ReserveList(n)
    \/ /\ Len(handles) < MaxCalls
       /\ \E n \in 0..MaxReserve : ReserveMap(n)
    \/ /\ Len(handles) < MaxCalls
       /\ \E fields \in FieldLists(MaxReserve) : AppendInputObject(fields)

SpecArena == Init /\ [][NextArena]_vars

-----------------------------------------------------------------------------
(* Actions on typed ids *)

\* $name::from(value), and usize::from of the id when one is built
FromUsize(value, max, overflow_checks) ==
    LET id == from_usize(value, max, overflow_checks)
    IN  /\ Len(typed_ids) < MaxIds
        /\ typed_ids' = Append(typed_ids,
              [value |-> value, max |-> max, id |-> id,
               back |-> IF id.built THEN usize_from(id) ELSE 0])
        /\ UNCHANGED exceptIdVars

NextId ==
    /\ Len(typed_ids) < MaxIds
    /\ \E value \in Indices : \E max \in MaxOptions : \E overflow_checks \in BOOLEAN :
          FromUsize(value, max, overflow_checks)

SpecId == Init /\ [][NextId]_vars

-----------------------------------------------------------------------------
(* Vocabulary of the properties *)

\* the request `kind` has returned Ok
Succeeded(kind) == pc = "idle" /\ outcome = "ok" /\ op.kind = kind

RootKey == IF op.kind = "create" THEN <<"proj", <<>>>> ELSE <<"updated", <<>>>>

ChildKind(c) ==
    IF c.op = "create" THEN "proj" ELSE IF c.null THEN "empty" ELSE "load"

\* every child input of the request's input tree, with the keys of the parent's
\* and of the child's selection
RECURSIVE RelOpsAt(_, _, _, _)
RelOpsAt(ty, parentKey, input, path) ==
    UNION {
        LET f == fi[1]
            c == input.rels[f][fi[2]]
            cpath == path \o <<f, fi[2]>>
            rec == [parent |-> parentKey, child |-> <<ChildKind(c), cpath>>,
                    rel |-> relations(ty)[f].name, child_ty |-> relations(ty)[f].ty,
                    op |-> c.op, ids |-> c.ids, depth |-> Len(path)]
        IN  {rec} \cup (IF c.op = "create"
                        THEN RelOpsAt(relations(ty)[f].ty, <<"proj", cpath>>, c.input, cpath)
                        ELSE {})
        : fi \in {x \in (DOMAIN relations(ty)) \X {1} :
                     x[1] \in DOMAIN input.rels /\ x[2] <= Len(input.rels[x[1]])}}

RelOps ==
    IF op.kind \in {"create", "update"}
    THEN RelOpsAt(IdType(op.id), RootKey, op.input, <<>>)
    ELSE {}

\* the ids the request unlinks / links from its root
Unlinked == UNION {r.ids : r \in {x \in RelOps : x.op = "unlink"}}
Linked == UNION {r.ids : r \in {x \in RelOps : x.op = "link"}}

\* the entity a resolved selection stands for: the id of its first entry
Picked(key) == sels[key].first[1][1]
HasPick(key) == key \in DOMAIN sels /\ sels[key].ok /\ sels[key].first # <<>>

HasEdge(s, a, b, rel) == Exists(s, a, b) /\ rel \in s[<<a, b>>].rels

-----------------------------------------------------------------------------
(* C1 *)

-----------------------------------------------------------------------------
(* C2 *)

\* C2: after a successful DeleteNode(id) no row of the store has id as __pk or
\* as __sk, whatever its kind.
C2_DeleteRemovesEveryRow ==
    Succeeded("delete") => \A k \in DOMAIN store : k[1] # op.id /\ k[2] # op.id

\* a DeleteNode succeeded on a node that had its node row, an edge row it owns
\* and an edge row owned by another node
C2_Witness ==
    /\ Succeeded("delete")
    /\ Exists(pre, op.id, op.id)
    /\ \E k \in DOMAIN pre : k[1] = op.id /\ k[2] # op.id
    /\ \E k \in DOMAIN pre : k[2] = op.id /\ k[1] # op.id

-----------------------------------------------------------------------------
(* C3 *)

\* the rows that hold the attributes of the updated entity when the request
\* starts: the node row and its duplicates in edge rows
Copies == {k \in DOMAIN pre : k[2] = op.id}

Refreshed(k) ==
    /\ k \in DOMAIN store
    /\ store[k].val = op.input.basic
    /\ store[k].upd = store[<<op.id, op.id>>].upd
    /\ store[k].upd > pre[k].upd

\* C3 as stated: a successful UpdateNode(id) that sets a basic field leaves the
\* node row and all N edge rows with the new value and the same refreshed
\* updated_at.
C3_AllCopiesUpdated ==
    (Succeeded("update") /\ op.input.basic # NoVal) => \A k \in Copies : Refreshed(k)

\* C3 amended: the same, for an UpdateNode whose relation fields neither link nor
\* unlink the entity at the other end of one of the N edge rows.
C3_AllCopiesUpdatedUnlessRelated ==
    (/\ Succeeded("update") /\ op.input.basic # NoVal
     /\ \A b \in Linked \cup Unlinked : ~Exists(pre, b, op.id)) =>
        \A k \in Copies : Refreshed(k)

\* a successful UpdateNode of a basic field of an entity duplicated in an edge row
C3_Witness ==
    /\ Succeeded("update") /\ op.input.basic # NoVal
    /\ \A b \in Linked \cup Unlinked : ~Exists(pre, b, op.id)
    /\ \E k \in Copies : k[1] # op.id /\ pre[k].val # op.input.basic

-----------------------------------------------------------------------------
(* C4 *)

\* the selection futures of the request's mutation tree
Selections ==
    {x \in SelectionsOf(txs) : x.kind # "empty" \/ x.path # <<>>}

\* C4: within one CreateNode or UpdateNode every selection future has completed
\* successfully before a transaction future issues a write; so when a selection
\* fails, no write of the request has been issued.
C4_SelectionsBeforeWrites ==
    (op.kind \in {"create", "update"} /\ submitted > 0) =>
        /\ ~selFailed
        /\ \A x \in Selections : Resolved(sels, x) /\ sels[SelKey(x)].ok

-----------------------------------------------------------------------------
(* C5 *)

RECURSIVE Distinct(_)
Distinct(seq) ==
    IF seq = <<>> THEN <<>>
    ELSE LET rest == Distinct(SubSeq(seq, 1, Len(seq) - 1))
             x == seq[Len(seq)]
         IN  IF \E i \in 1..Len(rest) : rest[i] = x THEN rest ELSE Append(rest, x)

\* the key under which query_node_edges groups a row
EntityKey(cursor, row) == IF is_nested_relation(cursor) THEN row[2] ELSE row[1]

\* the entities a cursor's scan meets, in scan order
Entities(cursor) ==
    LET scan == Scan(cursor, table)
    IN  Distinct([i \in 1..Len(scan) |-> EntityKey(cursor, scan[i])])

Index(seq, x) == CHOOSE i \in 1..Len(seq) : seq[i] = x

\* C5: when a call with `first` = N (or `last` = N) and no `after` (`before`)
\* returned last_evaluated_key = K, the call with `after` (`before`) = K and the
\* same N returns a page that shares no entity with the first page and starts
\* at the entity that follows the last entity of the first page in scan order.
C5_NextPageContinues ==
    (qpc = "returned" /\ call = 2) =>
        LET all == Entities(page1.cursor)
            first_page == page1.result.values
            reached == IF first_page = <<>> THEN 0
                       ELSE Index(all, first_page[Len(first_page)].key)
        IN  /\ KeysOf(qresult.values) \cap KeysOf(first_page) = {}
            /\ reached < Len(all) =>
                  /\ qresult.values # <<>>
                  /\ qresult.values[1].key = all[reached + 1]

-----------------------------------------------------------------------------
(* C6 *)

\* C6: query_node_edges returns at most `limit` entries; when the scan meets
\* more than `limit` distinct keys it returns exactly `limit` entries,
\* last_evaluated_key is the (limit+1)-th distinct key of the scan, and that
\* key has no entry in values.
C6_LimitAndCursor ==
    qpc = "returned" =>
        LET cursor == created.cursor
            all == Entities(cursor)
        IN  /\ Len(qresult.values) <= limit(cursor)
            /\ Len(all) > limit(cursor) =>
                  /\ Len(qresult.values) = limit(cursor)
                  /\ qresult.last_evaluated_key = all[limit(cursor) + 1]
                  /\ all[limit(cursor) + 1] \notin KeysOf(qresult.values)

-----------------------------------------------------------------------------
(* C7 *)

Called == qpc # "new"

\* C7 as stated: from_graphql returns SameParameterSameTime whenever `first` and
\* `last` are set, FirstAndBeforeSameTime whenever `first` and `before` are set,
\* LastAndAfterSameTime whenever `last` and `after` are set, whatever the other
\* arguments, and no cursor in the three cases.
C7_ExclusiveArguments ==
    Called =>
        /\ (args.first # None /\ args.last # None) =>
              (~created.ok /\ created.err = "SameParameterSameTime")
        /\ (args.first # None /\ args.before # None) =>
              (~created.ok /\ created.err = "FirstAndBeforeSameTime")
        /\ (args.last # None /\ args.after # None) =>
              (~created.ok /\ created.err = "LastAndAfterSameTime")

\* C7 amended: from_graphql returns no cursor in the three cases; the error is
\* SameParameterSameTime when `first` and `last` are set, FirstAndBeforeSameTime
\* when `first` and `before` are set and `last` is not, LastAndAfterSameTime
\* when `last` and `after` are set and `first` is not.
C7_ExclusiveArgumentsInMatchOrder ==
    Called =>
        /\ (args.first # None /\ args.last # None) =>
              (~created.ok /\ created.err = "SameParameterSameTime")
        /\ (args.first # None /\ args.before # None /\ args.last = None) =>
              (~created.ok /\ created.err = "FirstAndBeforeSameTime")
        /\ (args.last # None /\ args.after # None /\ args.first = None) =>
              (~created.ok /\ created.err = "LastAndAfterSameTime")

\* from_graphql was called with `first`, `before` and `last` and answered with
\* the error of `first` and `last`
C7_Witness ==
    /\ qpc = "error"
    /\ args.first # None /\ args.before # None /\ args.last # None
    /\ created.err = "SameParameterSameTime"

-----------------------------------------------------------------------------
(* C8 *)

CreatedIds == {i \in 1..Len(txs) : txs[i].kind = "put"}

\* C8: the nodes created within one mutation (the root and every nested create)
\* get pairwise different identifiers.
C8_CreatedIdsDistinct ==
    \A i, j \in CreatedIds : i # j => txs[i].id # txs[j].id

-----------------------------------------------------------------------------
(* C9 *)

NoMatchingRow == \A k \in DOMAIN pre : k[1] # op.id /\ k[2] # op.id

\* C9: DeleteNode(id), the queries having answered that no row has id as __pk or
\* as __sk, returns the not-found error, hands no item to the transaction
\* batcher and leaves the store as it was.
C9_DeleteOfNothing ==
    (pc = "idle" /\ op.kind = "delete" /\ NoMatchingRow) =>
        /\ submitted = 0
        /\ store = pre
        /\ outcome # "ok"
        /\ ~selFailed => outcome = "notfound"

\* a DeleteNode of an id without rows, on a store that holds rows of other nodes
C9_Witness ==
    /\ pc = "idle" /\ op.kind = "delete" /\ NoMatchingRow /\ outcome = "notfound"
    /\ \E k \in DOMAIN pre : IsNodeId(k[1])

-----------------------------------------------------------------------------
(* C10 *)

UnlinkedOthers == Unlinked \ {op.id}

-----------------------------------------------------------------------------
(* C11 *)

\* a step in which the transaction batcher rejects the items of a future
BatcherFails == pc = "tx" /\ nfail' > nfail /\ submitted' > submitted

\* a step in which try_join_all returns the error of a transaction future
MutationFails == pc = "tx" /\ pc' = "idle" /\ outcome' = "err"

\* C11: the transaction futures of a request run in any order: whenever the
\* selections a pending future awaits have resolved, it can be the next to hand
\* its items to the batcher, whatever its place in the list.  When a future
\* fails the request ends with an error, and the step that ends it writes
\* nothing: the table keeps the writes the sibling futures had applied.
C11_NoOrderNoRollback ==
    /\ [](pc = "tx" =>
            \A i \in pending :
                AwaitsDone(sels, txs[i]) => ENABLED RunTransaction(i, FALSE))
    /\ [][/\ BatcherFails => MutationFails
          /\ MutationFails => store' = store]_vars

\* a CreateNode failed after the Put of its node, the last future of the list,
\* was applied: the node row is in the table of the failed request
C11_Witness ==
    /\ pc = "idle" /\ outcome = "err" /\ op.kind = "create"
    /\ ~Exists(pre, op.id, op.id)
    /\ Exists(store, op.id, op.id)
    /\ Len(txs) > 1

-----------------------------------------------------------------------------
(* C12 *)

\* how many times the work of the selection with key k was executed
Executed(k) == IF k \in DOMAIN polls THEN polls[k] ELSE 0

\* the transaction futures of the request that await the selection with key k
Awaiters(k) ==
    {i \in 1..Len(txs) : \E a \in 1..Len(Awaits(txs[i])) : SelKey(Awaits(txs[i])[a]) = k}

\* the selections the resolver itself awaits before try_join_all: the root
\* selection and, for UpdateNode, the reversed query joined with it
ResolverAwaits ==
    IF op.kind = "update" THEN {RootKey, <<"reversed", <<>>>>}
    ELSE IF op.kind = "create" THEN {RootKey} ELSE {}

AwaitedKeys ==
    ResolverAwaits \cup {SelKey(x) : x \in {y \in SelectionsOf(txs) : Awaiters(SelKey(y)) # {}}}

-----------------------------------------------------------------------------
(* C13 *)

\* the items that got a RequiredFieldId so far
Items == 1..Len(required_field_sets)

\* C13: two items converted by try_insert_into, in the same or in different
\* buffered field sets and at any depth, have the same RequiredFieldId if and
\* only if they have the same field definition and the same list of (argument
\* definition id, input value id) pairs; graph.required_fields holds, at each
\* id, the field of the items with that id.
C13_SameIdIffSameField ==
    /\ \A i, j \in Items :
          (required_field_sets[i].id = required_field_sets[j].id)
              <=> (/\ required_field_sets[i].field.definition_id
                        = required_field_sets[j].field.definition_id
                   /\ required_field_sets[i].field.arguments
                        = required_field_sets[j].field.arguments)
    /\ bpc = "ok" =>
          \A i \in Items :
              graph.required_fields[required_field_sets[i].id + 1]
                  = required_field_sets[i].field

\* try_insert_into returned Ok with two items of field 1, in different field
\* sets, that share an id: both supplied the required argument, and the
\* coercer gave the two values the same input value id
C13_Witness ==
    /\ bpc = "ok"
    /\ \E i, j \in Items :
          /\ required_field_sets[i].set # required_field_sets[j].set
          /\ required_field_sets[i].id = required_field_sets[j].id
          /\ required_field_sets[i].field.definition_id = 11

-----------------------------------------------------------------------------
(* C14 *)

\* the last convert_item call was for a field of the build
Resolves == last_item.field # None /\ idmaps_field(last_item.field) # None

Declared == argument_ids(idmaps_field(last_item.field))

IsSupplied(a) == a \in Supplied(last_item)

SuppliedValue(a) ==
    last_item.arguments[CHOOSE i \in 1..Len(last_item.arguments) :
                           idmaps_input_value(last_item.arguments[i][1]) = a][2]

HasDefault(a) == InputValueDefinition(a).default_value # None

\* the declared arguments that must end in the list, in schema order
Kept ==
    LET keep(a) == IsSupplied(a) \/ HasDefault(a)
    IN  SelectSeq(Declared, keep)

\* the declared arguments without value, without default and of a required type
Missing ==
    {a \in {Declared[i] : i \in 1..Len(Declared)} :
        ~IsSupplied(a) /\ ~HasDefault(a) /\ InputValueDefinition(a).required}

\* C14: convert_item of an item whose field is part of the build.  When it
\* succeeds, the argument list of the required field is, in schema declaration
\* order, one pair per declared argument that the item supplies or that has a
\* default: the id of the coerced supplied value if supplied, else the id of
\* the default; an argument with neither is left out, and its type is not
\* required.  When a declared argument has neither and its type is required,
\* the conversion fails, with MissingRequiredArgument naming that argument
\* unless the coercion of a supplied argument failed, and try_insert_into fails.
C14_ArgumentsInSchemaOrder ==
    Resolves =>
        LET arguments == converted.field.arguments
        IN  /\ converted.ok =>
                  /\ Missing = {}
                  /\ Len(arguments) = Len(Kept)
                  /\ \A i \in 1..Len(Kept) :
                        /\ arguments[i][1] = Kept[i]
                        /\ IF IsSupplied(Kept[i])
                           THEN /\ arguments[i][2] \in 1..Len(input_values)
                                /\ input_values[arguments[i][2]] = SuppliedValue(Kept[i])
                           ELSE arguments[i][2] = InputValueDefinition(Kept[i]).default_value
            /\ Missing # {} =>
                  /\ ~converted.ok /\ bpc = "err"
                  /\ converted.err \in {"MissingRequiredArgument", "Coercion"}
            /\ converted.err = "MissingRequiredArgument" => converted.name \in Missing
            /\ converted.err = "Coercion" => IsSupplied(converted.name)

\* an item supplied both arguments of field 1 in the reverse of the schema
\* order, after an item of field 2 that supplied none: a default was used and
\* an optional argument left out
C14_Witness ==
    /\ Resolves /\ converted.ok
    /\ Len(last_item.arguments) = 2
    /\ idmaps_input_value(last_item.arguments[1][1]) = 22
    /\ idmaps_input_value(last_item.arguments[2][1]) = 21
    /\ converted.field.arguments[1][1] = 21
    /\ Len(required_field_sets) = 2
    /\ required_field_sets[1].field = RequiredField(12, <<<<24, 2>>>>)

-----------------------------------------------------------------------------
(* C15 *)

\* the value an operation value stands for: a DefaultValue is the schema value
\* it refers to
Referred(value) == IF value.tag = "DefaultValue" THEN SchemaInputValues[value.v] ELSE value

Entries(value) == IF value.tag \in CompositeTags THEN Len(value.v) ELSE 0

\* C15: comparing an operation value with a schema value returns false whenever
\* the two have different tags or, for input objects, lists and maps, a
\* different number of entries.
C15_FalseOnTagOrArityMismatch ==
    (/\ comparison.called
     /\ \/ Referred(comparison.l).tag # comparison.r.tag
        \/ Entries(Referred(comparison.l)) # Entries(comparison.r))
        => ~comparison.result

-----------------------------------------------------------------------------
(* C16 *)

LimitsPass == \A k \in LimitKinds :
    validation.schema[k] = None \/ validation.operation[k] <= validation.schema[k]

IntrospectionPasses ==
    ~validation.schema.disable_introspection \/ validation.operation.introspection = None

\* C16: validate_operation returns Ok only if both the operation-limits check
\* and the introspection check pass; a failure of either converts to a
\* GraphqlError with code OperationValidationError, carrying the source location
\* for IntrospectionWhenDisabled and no location for OperationLimitExceeded, and
\* when both checks would fail the limit error is the one reported.
C16_BothChecksLimitFirst ==
    validation.called =>
        /\ validation.result.ok => (LimitsPass /\ IntrospectionPasses)
        /\ ~(LimitsPass /\ IntrospectionPasses) =>
              /\ ~validation.result.ok
              /\ validation.error.code = "OperationValidationError"
        /\ (~validation.result.ok
                /\ validation.result.err.kind = "IntrospectionWhenDisabled") =>
              validation.error.locations = <<validation.operation.introspection>>
        /\ (~validation.result.ok
                /\ validation.result.err.kind = "OperationLimitExceeded") =>
              validation.error.locations = <<>>
        /\ (~LimitsPass /\ ~IntrospectionPasses) =>
              validation.result.err.kind = "OperationLimitExceeded"

\* both checks fail on the operation validated
C16_Witness ==
    /\ validation.called
    /\ ~LimitsPass /\ ~IntrospectionPasses
    /\ validation.result.err.kind = "OperationLimitExceeded"
    /\ validation.error.locations = <<>>

-----------------------------------------------------------------------------
(* C17 *)

\* the headers carry a token none of the engine's providers accepts, or none
NoProviderAccepts(h) == h.authorization \notin request.engine.providers

\* the response execute returned is the Unauthenticated error alone, without
\* data, and neither the rate limiter nor an operation was reached
UnauthenticatedFirst ==
    /\ response.errors = <<GraphqlError("Unauthenticated", "UNAUTHENTICATED")>>
    /\ ~response.data
    /\ limiter_calls = 0
    /\ executions = 0

\* C17 as the specification states it: a request whose headers authenticate with
\* none of the configured providers gets the Unauthenticated response, before the
\* rate limiter is consulted and before any operation is prepared or executed.
C17_UnauthenticatedRequestHeaders ==
    (epc = "done" /\ NoProviderAccepts(request.headers)) => UnauthenticatedFirst

\* C17: when on_gateway_request accepts the request and the headers it hands
\* back authenticate with none of the configured providers, execute returns a
\* response whose only error is "Unauthenticated" (code UNAUTHENTICATED) and no
\* data, before the rate limiter is consulted and before any operation is
\* prepared or executed.
C17_UnauthenticatedAfterHook ==
    (epc = "done" /\ headers.returned /\ NoProviderAccepts(headers)) => UnauthenticatedFirst

\* a hook handed back headers no provider accepts and execute has returned
C17_Witness ==
    /\ epc = "done"
    /\ request.engine.hooks
    /\ headers.returned /\ NoProviderAccepts(headers)
    /\ headers.authorization # request.headers.authorization
    /\ response.errors = <<GraphqlError("Unauthenticated", "UNAUTHENTICATED")>>

-----------------------------------------------------------------------------
(* C18 *)

\* limit+1 distinct keys have been accumulated: the key of the n+1 element is
\* recorded when it is inserted
EnoughAccumulated == qresult.last_evaluated_key # None

\* C18: the page-fetch loop of query_node_edges issues no further store query
\* once limit+1 distinct keys have been accumulated, even when the store gave a
\* continuation token with the last page; otherwise it goes on until the store
\* returns a page without continuation token.
C18_NoQueryOnceEnough ==
    /\ [][(qpc = "loop" /\ EnoughAccumulated) => queries' = queries]_vars
    /\ [](qpc = "loop" /\ ~EnoughAccumulated /\ actual_state = "Next"
            => ~ENABLED QueryReturn)

-----------------------------------------------------------------------------
(* C20 *)

IsSet(x) == x # None

ReturnedForward == created.ok /\ created.cursor.kind = "Forward"

ReturnedBackward == created.ok /\ created.cursor.kind = "Backward"

\* C20: over the presence combinations of (first, after, last, before),
\* from_graphql returns Forward exactly when first is set and last and before are
\* unset, Backward exactly when last is set and first and after are unset, and an
\* error in every other case (Direction when neither first nor last is set); a
\* returned cursor carries `after` as exclusive_last_key or `before` as
\* exclusive_first_key unchanged.
C20_ForwardBackwardOrError ==
    qpc # "new" =>
        /\ ReturnedForward <=>
              (IsSet(args.first) /\ ~IsSet(args.last) /\ ~IsSet(args.before))
        /\ ReturnedBackward <=>
              (IsSet(args.last) /\ ~IsSet(args.first) /\ ~IsSet(args.after))
        /\ ~created.ok <=> ~(ReturnedForward \/ ReturnedBackward)
        /\ (~IsSet(args.first) /\ ~IsSet(args.last)) =>
              (~created.ok /\ created.err = "Direction")
        /\ ReturnedForward =>
              created.cursor = Forward(args.after, args.first, args.nested)
        /\ ReturnedBackward =>
              created.cursor = Backward(args.before, args.last, args.nested)

\* a Backward cursor was returned for `last` with `before`
C20_Witness ==
    /\ qpc = "cursor"
    /\ ReturnedBackward
    /\ IsSet(args.before)
    /\ created.cursor.key = args.before

-----------------------------------------------------------------------------
(* C19 *)

\* the relation fields of the request that link a list of ids which are all ids
\* of nodes the store held when the request started, under a relation the type
\* of the targets declares as well
LinksOfExisting ==
    {r \in RelOps : /\ r.op = "link"
                    /\ r.ids # {}
                    /\ \A b \in r.ids : Exists(pre, b, b)
                    /\ declares_relation(r.child_ty, r.rel)}

\* C19: for a relation field with `link` given a list of k existing target ids
\* (k >= 1), a successful mutation has written the parent-to-child and the
\* child-to-parent edge row for each of the k targets.
C19_LinkWritesEveryTarget ==
    Succeeded("create") =>
        \A r \in LinksOfExisting :
            \A b \in r.ids :
                /\ HasEdge(store, op.id, b, r.rel)
                /\ HasEdge(store, b, op.id, r.rel)

-----------------------------------------------------------------------------
(* C21 *)

IsEdgeKey(k) == IsNodeId(k[1]) /\ IsNodeId(k[2]) /\ k[1] # k[2]

\* the relation fields of the request's root that link the same target
SamePairLinks ==
    {p \in RelOps \X RelOps :
        /\ p[1].op = "link" /\ p[2].op = "link"
        /\ p[1].depth = 0 /\ p[2].depth = 0
        /\ p[1].rel # p[2].rel
        /\ HasPick(p[1].parent) /\ HasPick(p[1].child) /\ HasPick(p[2].child)
        /\ Picked(p[1].child) = Picked(p[2].child)}

\* C21: when the same ordered pair (parent, child) is linked under two relations
\* R1 and R2, in one mutation or in successive mutations, the edge row of the
\* pair ends with both names in __relation_name: a step that writes an edge row
\* and leaves it in the store never removes a relation name written earlier.
C21_RelationNamesAccumulate ==
    /\ [][\A k \in DOMAIN store :
            (IsEdgeKey(k) /\ k \in DOMAIN store') => store[k].rels \subseteq store'[k].rels]_vars
    /\ []((Succeeded("create") \/ Succeeded("update")) =>
            \A p \in SamePairLinks :
                LET k == <<Picked(p[1].parent), Picked(p[1].child)>>
                IN  k \in DOMAIN store /\ {p[1].rel, p[2].rel} \subseteq store[k].rels)

\* a successful request added R2 to an edge row that held R1 alone
C21_Witness ==
    /\ Succeeded("update")
    /\ \E k \in DOMAIN pre \cap DOMAIN store :
          /\ IsEdgeKey(k)
          /\ pre[k].rels = {"R1"}
          /\ store[k].rels = {"R1", "R2"}

-----------------------------------------------------------------------------
(* C22 *)

\* the relation fields of the request whose `unlink` value is null
NullUnlinks == {r \in RelOps : r.op = "unlink" /\ r.child[1] = "empty"}

InRelation(s, k, rel) == k \in DOMAIN s /\ rel \in s[k].rels

\* the request is being resolved, or has returned Ok
Resolving == pc = "tx" \/ Succeeded("create") \/ Succeeded("update")

\* C22: a relation field whose `unlink` value is null records the error "If you
\* fill an unlink value it shouldn't be null" at its position and contributes
\* no delete transaction; the rows of that relation are as they were when the
\* request started.
C22_NullUnlinkReportsAndWritesNothing ==
    Resolving =>
        \A r \in NullUnlinks :
            /\ r.child[2] \in errors
            /\ \A i \in 1..Len(txs) : ~(txs[i].kind = "remove" /\ txs[i].rel = r.rel)
            /\ \A k \in DOMAIN pre \cup DOMAIN store :
                  IsEdgeKey(k) => (InRelation(pre, k, r.rel) <=> InRelation(store, k, r.rel))

\* an UpdateNode with `unlink: null` under R1 returned Ok on a node that has an
\* edge row under R1
C22_Witness ==
    /\ Succeeded("update")
    /\ \E r \in NullUnlinks :
          /\ r.rel = "R1"
          /\ r.child[2] \in errors
          /\ \E k \in DOMAIN store : k[1] = op.id /\ IsEdgeKey(k) /\ InRelation(store, k, "R1")

-----------------------------------------------------------------------------
(* C23 *)

\* the input of the UpdateNode holds relation fields only
RelationsOnly == op.kind = "update" /\ op.input.basic = NoVal /\ RelOps # {}

IsNodeKey(k) == IsNodeId(k[1]) /\ k[1] = k[2]

\* C23: an UpdateNode whose input holds relation fields only issues no Update
\* item on the node row or on its duplicate edge rows: the update future submits
\* nothing, the attributes and updated_at of every row whose sort key is the
\* node are as they were, and no node row that existed is written.
C23_RelationsOnlyKeepsAttributes ==
    /\ (pc = "tx" /\ RelationsOnly) =>
          \A i \in pending :
              (txs[i].kind = "update" /\ AwaitsDone(sels, txs[i])) =>
                  update_items(sels, txs[i], now) = {}
    /\ (Succeeded("update") /\ RelationsOnly) =>
          /\ \A k \in DOMAIN pre \cap DOMAIN store :
                k[2] = op.id => RowAttrs(store[k]) = RowAttrs(pre[k])
          /\ \A k \in DOMAIN pre :
                IsNodeKey(k) => k \in DOMAIN store /\ store[k] = pre[k]

\* an UpdateNode with relation fields only returned Ok after writing an edge row
\* of the node, whose node row has a duplicate edge row
C23_Witness ==
    /\ Succeeded("update")
    /\ RelationsOnly
    /\ <<op.id, op.id>> \in DOMAIN store
    /\ \E k \in DOMAIN pre \cap DOMAIN store : IsEdgeKey(k) /\ k[2] = op.id
    /\ \E k \in DOMAIN store \ DOMAIN pre : IsEdgeKey(k)

-----------------------------------------------------------------------------
(* C24 *)

\* the store held no row for the id of the UpdateNode when it started
MissingId == op.kind = "update" /\ ~Exists(pre, op.id, op.id)

\* C24: an UpdateNode on an id for which the store holds no row creates no row,
\* whatever its input (basic fields, nested `create`, `link`, `unlink`).
C24_MissingIdCreatesNoRow ==
    (Succeeded("update") /\ MissingId) => DOMAIN store \subseteq DOMAIN pre

-----------------------------------------------------------------------------
(* C25 *)

\* a selection of the request resolved to an item for the id
Projected(id) ==
    \E key \in DOMAIN sels : sels[key].ok /\ <<id, id>> \in DOMAIN sels[key].items

\* the edge rows the request has written: new, or with another __relation_name
WrittenEdges ==
    {k \in DOMAIN store :
        IsEdgeKey(k) /\ (k \notin DOMAIN pre \/ store[k].rels # pre[k].rels)}

\* the ids the request links for which the loader finds no item
LinkedMissing == {b \in Linked : ~Exists(pre, b, b) /\ ~Exists(store, b, b)}

\* C25: an edge row is written only when both endpoint projections resolved to
\* an item; for a `link` target id the loader finds no item for, no edge row is
\* written in either direction.
C25_EdgesOnlyBetweenProjections ==
    (op.kind \in {"create", "update"}) =>
        /\ \A k \in WrittenEdges : Projected(k[1]) /\ Projected(k[2])
        /\ \A b \in LinkedMissing : \A k \in WrittenEdges : k[1] # b /\ k[2] # b

\* a request that links an id without row returned Ok, and wrote an edge row for
\* another relation field
C25_Witness ==
    /\ Succeeded("create") \/ Succeeded("update")
    /\ LinkedMissing # {}
    /\ WrittenEdges # {}

-----------------------------------------------------------------------------
(* C26 *)

RelationNames == {"R1", "R2"}

\* the request unlinks b from its node under the relation
UnlinksUnder(b, rel) ==
    \E r \in RelOps : r.op = "unlink" /\ r.depth = 0 /\ r.rel = rel /\ b \in r.ids

\* the ids the request unlinks under a relation that linked them to its node
UnlinkedMembers ==
    {b \in Unlinked : \E rel \in RelationNames :
        UnlinksUnder(b, rel) /\ HasEdge(pre, op.id, b, rel)}

\* C26: unlinking B from A under R removes the membership in R only: when the
\* pair (A, B) is linked under another relation R' as well, the edge rows (A, B)
\* and (B, A) are still there with R' in __relation_name after the unlink.
C26_UnlinkKeepsOtherRelations ==
    Succeeded("update") =>
        \A b \in UnlinkedMembers : \A other \in RelationNames :
            (~UnlinksUnder(b, other)) =>
                /\ HasEdge(pre, op.id, b, other) => HasEdge(store, op.id, b, other)
                /\ HasEdge(pre, b, op.id, other) => HasEdge(store, b, op.id, other)

-----------------------------------------------------------------------------
(* C27 *)

\* the RequiredFieldIds given to the items converted before item i
IdsBefore(i) == {required_field_sets[j].id : j \in 1..(i - 1)}

\* C27: after try_insert_into succeeds, the RequiredFieldIds are dense 0..n-1
\* in first-occurrence order, graph.required_fields[id] is the (definition,
\* arguments) tuple that was given the id, for every item of every set, and
\* graph.required_field_sets holds the converted sets in the order of their
\* push.
C27_DenseIdsInFirstOccurrenceOrder ==
    bpc = "ok" =>
        LET n == Len(graph.required_fields)
        IN  /\ {required_field_sets[i].id : i \in Items} = 0..(n - 1)
            /\ \A i \in Items :
                  \/ required_field_sets[i].id \in IdsBefore(i)
                  \/ required_field_sets[i].id = Cardinality(IdsBefore(i))
            /\ \A i \in Items :
                  graph.required_fields[required_field_sets[i].id + 1]
                      = RequiredField(required_field_sets[i].field.definition_id,
                                      required_field_sets[i].field.arguments)
            /\ graph.required_field_sets = required_field_sets
            /\ \A i, j \in Items :
                  i < j => /\ graph.required_field_sets[i].set <= graph.required_field_sets[j].set
                           /\ graph.required_field_sets[j].set <= position.set

\* try_insert_into returned Ok after giving the id 0 to an item of the first
\* set and the id 1 to an item of its subselection or of the second set
C27_Witness ==
    /\ bpc = "ok"
    /\ Len(graph.required_fields) = 2
    /\ Len(required_field_sets) = 2
    /\ required_field_sets[1].id = 0
    /\ required_field_sets[2].id = 1

-----------------------------------------------------------------------------
(* C28 *)

\* the field of the last convert_item call has no local field definition
Dropped == last_item.field # None /\ idmaps_field(last_item.field) = None

\* C28: an item whose federated field has no local field definition is dropped
\* with its subselection, without error and without a RequiredFieldId, and the
\* other items of the field set are still converted.
C28_UnknownFieldIsDropped ==
    [][(bpc = "convert" /\ position'.items # position.items /\ Dropped')
        => /\ bpc' = "convert"
           /\ converted' = NoConversion
           /\ deduplicated_fields' = deduplicated_fields
           /\ required_field_sets' = required_field_sets
           /\ input_values' = input_values
           /\ position'.depth = position.depth
           /\ position'.set = position.set]_vars

\* try_insert_into returned Ok with an item converted after an item of the same
\* field set was dropped
C28_Witness ==
    /\ bpc = "ok"
    /\ position.items = 2
    /\ Resolves
    /\ Len(graph.required_field_sets) = 1
    /\ graph.required_field_sets[1].set = 1
    /\ graph.required_field_sets[1].id = 0

-----------------------------------------------------------------------------
(* C29 *)

\* the slots a handle designates, read in the vectors as they are now
SlotsOf(h) == SubSeq(query_input_values[h.vec], h.start + 1, h.end)

EmptySlot(vec) == IF vec = "key_values" THEN <<"", NullValue>> ELSE NullValue

\* C29: QueryInputValues is append-only.  reserve_list(n) and reserve_map(n)
\* return a range of exactly n new consecutive slots, all Null, that starts at
\* the previous length of their vector; after any sequence of push_value,
\* reserve_list, reserve_map and append_input_object, every id or range returned
\* earlier designates the same slots with the same content, and overlaps no id
\* or range returned later.
C29_AppendOnly ==
    \A i \in 1..Len(handles) :
        LET h == handles[i]
        IN  /\ h.start = h.before
            /\ h.end - h.start = h.n
            /\ h.end <= Len(query_input_values[h.vec])
            /\ SlotsOf(h) = h.content
            /\ h.op \in {"reserve_list", "reserve_map"} =>
                  \A k \in 1..Len(h.content) : h.content[k] = EmptySlot(h.vec)
            /\ \A j \in (i + 1)..Len(handles) :
                  handles[j].vec = h.vec => h.end <= handles[j].start

\* a list of two slots was reserved, then a value was pushed and a second list
\* reserved behind it
C29_Witness ==
    /\ Len(handles) = 3
    /\ handles[1].op = "reserve_list" /\ handles[1].n = 2
    /\ handles[2].op = "push_value" /\ handles[2].content = <<Value("Int", 1)>>
    /\ handles[3].op = "reserve_list" /\ handles[3].n = 1
    /\ Len(query_input_values.values) = 4

-----------------------------------------------------------------------------
(* C30 *)

Calls == 1..Len(typed_ids)

\* the call is within what the type accepts: its maximum, when it has one
WithinMax(c) == ~c.max.some \/ c.value <= c.max.v

\* C30: an id built from the index n stores n + 1, never zero, and converts
\* back to n, for every n with n + 1 <= u32::MAX; building from n >= u32::MAX
\* panics and never gives an id of another index; the order of two ids is the
\* order of their indices.
C30_IdRoundTrip ==
    /\ \A i \in Calls :
          LET c == typed_ids[i]
          IN  /\ (c.value + 1 <= U32_MAX /\ WithinMax(c)) => c.id.built
              /\ c.id.built => /\ c.id.stored = c.value + 1
                               /\ c.id.stored # 0
                               /\ c.id.stored <= U32_MAX
                               /\ c.back = c.value
              /\ c.value >= U32_MAX => ~c.id.built
    /\ \A i, j \in Calls :
          (typed_ids[i].id.built /\ typed_ids[j].id.built) =>
              /\ id_lt(typed_ids[i].id, typed_ids[j].id)
                    <=> typed_ids[i].value < typed_ids[j].value
              /\ typed_ids[i].id = typed_ids[j].id
                    <=> typed_ids[i].value = typed_ids[j].value

\* the largest index gave an id; the index after it, built without overflow
\* checks, a panic: the sum wrapped to 0, which NonZeroU32::new refuses
C30_Witness ==
    /\ Len(typed_ids) = 2
    /\ typed_ids[1].value = U32_MAX - 1
    /\ typed_ids[1].id.built
    /\ typed_ids[1].id.stored = U32_MAX
    /\ typed_ids[2].value = U32_MAX
    /\ ~typed_ids[2].id.built
    /\ typed_ids[2].id.message = "Too many"

====
